---- MODULE Spec2Model ----
(***************************************************************************)
(* Model of the Cloudflare Teams Location (Zero Trust DNS location)        *)
(* resource: the Create / Read / Update / Delete / Import handlers of      *)
(* resource_cloudflare_teams_location.go and the converters they use.      *)
(*                                                                         *)
(* The handlers are synchronous and single threaded: each is one action.   *)
(* The remote service is an opaque collaborator: every answer it can give  *)
(* to a call is an input of the action.  The calls a handler makes, the    *)
(* identifiers it stores and the nested Reads it performs are recorded, in *)
(* program order, in the variable log (the log of the last invocation).    *)
(***************************************************************************)
EXTENDS Integers, Sequences, FiniteSets, TLC

(***************************************************************************)
(* Bounds of the model.                                                    *)
(***************************************************************************)
MaxIdLen == 3
NumLocations == 2
NumConfigs == 5

(***************************************************************************)
(* Strings.  An identifier is a sequence of characters, "" is <<>>.  An    *)
(* error message is a sequence of words.  Opaque texts (names, addresses)  *)
(* are pairs <<kind, k>>, the zero value being <<>>.                       *)
(***************************************************************************)
Alphabet == {"a", "/"}

RECURSIVE StringsOfLen(_)
StringsOfLen(n) ==
    IF n = 0 THEN {<<>>}
    ELSE {Append(s, c) : s \in StringsOfLen(n - 1), c \in Alphabet}

Strings == UNION {StringsOfLen(n) : n \in 0..MaxIdLen}

EmptyString == <<>>

\* Contains, had it compared the whole text (err.Error() == substr)
Contains_WholeText(s, substr) == s = substr

\* strings.Contains(s, substr)
Contains(s, substr) ==
    \E i \in 0..(Len(s) - Len(substr)) : SubSeq(s, i + 1, i + Len(substr)) = substr

\* strings.Index(s, sep) for a one-character sep; 0 when sep is absent, else
\* the (1-based) position of its first occurrence
Index(s, sep) ==
    IF \E i \in 1..Len(s) : s[i] = sep
    THEN CHOOSE i \in 1..Len(s) : s[i] = sep /\ \A j \in 1..(i - 1) : s[j] # sep
    ELSE 0

\* SplitN2, had it split at the last sep instead of the first
SplitN2_Last(s, sep) ==
    IF \A i \in 1..Len(s) : s[i] # sep THEN <<s>>
    ELSE LET i == CHOOSE j \in 1..Len(s) :
                      s[j] = sep /\ \A k \in (j + 1)..Len(s) : s[k] # sep
         IN <<SubSeq(s, 1, i - 1), SubSeq(s, i + 1, Len(s))>>

\* strings.SplitN(s, sep, 2): at most two parts, split at the first sep
SplitN2(s, sep) ==
    LET i == Index(s, sep) IN
    IF i = 0 THEN <<s>>
    ELSE <<SubSeq(s, 1, i - 1), SubSeq(s, i + 1, Len(s))>>

\* the text Read looks for in the error of the get call
InvalidIdText == <<"Location", "ID", "is", "invalid">>

(***************************************************************************)
(* Values of the attribute tree (interface{}), tagged with their dynamic   *)
(* type so that a type assertion is a test of the tag.                     *)
(***************************************************************************)
Nil == [t |-> "nil"]
L(s) == [t |-> "list", v |-> s]
SetV(S) == [t |-> "set", v |-> S]
M(f) == [t |-> "map", v |-> f]
B(b) == [t |-> "bool", v |-> b]
S(s) == [t |-> "string", v |-> s]
\* a []map[string]interface{}: a slice of another type than []interface{}
ML(s) == [t |-> "maplist", v |-> s]

\* m[key] on a map[string]interface{}: nil when the key is missing
MapGet(m, key) == IF key \in DOMAIN m.v THEN m.v[key] ELSE Nil

\* pointers of the API structs
NilPtr == [t |-> "nilptr"]
Ptr(x) == [t |-> "ptr", v |-> x]

\* outcome of a converter: "ok" with a value, "error" (an error value is
\* returned) or "panic" (a failed type assertion or index aborts the handler)
Ok(x) == [status |-> "ok", v |-> x]
Err == [status |-> "error", v |-> Nil]
\* fmt.Errorf(msg) returned with a nil value
Errorf(msg) == [status |-> "error", v |-> Nil, msg |-> msg]
Panic == [status |-> "panic", v |-> Nil]

Range(s) == {s[i] : i \in 1..Len(s)}

\* schema.Set.List(): the elements in the order of their hash codes; the
\* hash code of the network <<"net", k>> is k
HashCode(e) ==
    IF e.t = "map" /\ "network" \in DOMAIN e.v
    THEN (IF e.v["network"].t = "string" /\ Len(e.v["network"].v) = 2
          THEN e.v["network"].v[2] ELSE 0)
    ELSE 0

RECURSIVE SetList(_)
SetList(T) ==
    IF T = {} THEN <<>>
    ELSE LET m == CHOOSE e \in T : \A o \in T : HashCode(e) <= HashCode(o)
         IN <<m>> \o SetList(T \ {m})

(***************************************************************************)
(* Attribute tree -> API struct: the inflate functions.                     *)
(***************************************************************************)
\* the loop shared by inflateTeamsLocationNetworks and
\* inflateTeamsLocationNetworksFromList: an item that is not a map is an
\* error, network["network"].(string) on anything but a string panics; the
\* first offending item decides
InflateNetworkItems(items) ==
    LET bad == {i \in 1..Len(items) :
                  items[i].t # "map" \/ MapGet(items[i], "network").t # "string"}
    IN IF bad = {}
       THEN Ok([i \in 1..Len(items) |-> [Network |-> MapGet(items[i], "network").v]])
       ELSE LET i == CHOOSE j \in bad : \A k \in bad : j <= k
            IN IF items[i].t # "map" THEN Err ELSE Panic

inflateTeamsLocationNetworks(networks) ==
    IF networks = Nil THEN Ok(<<>>)
    ELSE IF networks.t # "set" THEN Err
    ELSE InflateNetworkItems(SetList(networks.v))

inflateTeamsLocationNetworksFromList(networks) ==
    IF networks = Nil THEN Ok(<<>>)
    ELSE IF networks.t # "list" THEN Err
    ELSE InflateNetworkItems(networks.v)

\* firstItemInSet(l): l[0].(map[string]interface{}) panics on an empty list
\* and on a first element that is not a map
firstItemInSet(l) ==
    IF Len(l) = 0 THEN Panic
    ELSE IF l[1].t # "map" THEN Panic
    ELSE Ok(l[1])

\* epItem[key].(bool)
AssertBool(epItem, key) ==
    IF MapGet(epItem, key).t = "bool" THEN Ok(MapGet(epItem, key).v) ELSE Panic

inflateIpv4Endpoint(item) ==
    IF item.t # "list" THEN Err
    ELSE LET first == firstItemInSet(item.v) IN
         IF first.status # "ok" THEN Panic
         ELSE LET enabled == AssertBool(first.v, "enabled") IN
              IF enabled.status # "ok" THEN Panic
              ELSE Ok([Enabled |-> enabled.v, AuthenticationEnabled |-> FALSE])

inflateIpv6Endpoint(item) ==
    IF item.t # "list" THEN Err
    ELSE LET first == firstItemInSet(item.v) IN
         IF first.status # "ok" THEN Panic
         ELSE LET networks == inflateTeamsLocationNetworksFromList(MapGet(first.v, "networks"))
                  enabled == AssertBool(first.v, "enabled")
              IN IF networks.status # "ok" THEN networks
                 ELSE IF enabled.status # "ok" THEN Panic
                 ELSE Ok([Enabled |-> enabled.v,
                          AuthenticationEnabledUIHelper |-> FALSE,
                          Networks |-> networks.v])

\* inflateDoTEndpoint, had it read require_token from authentication_enabled
inflateDoTEndpoint_TokenFromHint(item) ==
    IF item.t # "list" THEN Err
    ELSE LET first == firstItemInSet(item.v) IN
         IF first.status # "ok" THEN Panic
         ELSE LET networks == inflateTeamsLocationNetworksFromList(MapGet(first.v, "networks"))
                  requireToken == AssertBool(first.v, "authentication_enabled")
                  enabled == AssertBool(first.v, "enabled")
              IN IF networks.status # "ok" THEN networks
                 ELSE IF requireToken.status # "ok" THEN Panic
                 ELSE IF enabled.status # "ok" THEN Panic
                 ELSE Ok([RequireToken |-> requireToken.v,
                          Enabled |-> enabled.v,
                          AuthenticationEnabledUIHelper |-> FALSE,
                          Networks |-> networks.v])

inflateDoTEndpoint(item) ==
    IF item.t # "list" THEN Err
    ELSE LET first == firstItemInSet(item.v) IN
         IF first.status # "ok" THEN Panic
         ELSE LET networks == inflateTeamsLocationNetworksFromList(MapGet(first.v, "networks"))
                  requireToken == AssertBool(first.v, "require_token")
                  enabled == AssertBool(first.v, "enabled")
              IN IF networks.status # "ok" THEN networks
                 ELSE IF requireToken.status # "ok" THEN Panic
                 ELSE IF enabled.status # "ok" THEN Panic
                 ELSE Ok([RequireToken |-> requireToken.v,
                          Enabled |-> enabled.v,
                          AuthenticationEnabledUIHelper |-> FALSE,
                          Networks |-> networks.v])

inflateDohEndpoint(item) ==
    IF item.t # "list" THEN Err
    ELSE LET first == firstItemInSet(item.v) IN
         IF first.status # "ok" THEN Panic
         ELSE LET networks == inflateTeamsLocationNetworksFromList(MapGet(first.v, "networks"))
                  requireToken == AssertBool(first.v, "require_token")
                  enabled == AssertBool(first.v, "enabled")
              IN IF networks.status # "ok" THEN networks
                 ELSE IF requireToken.status # "ok" THEN Panic
                 ELSE IF enabled.status # "ok" THEN Panic
                 ELSE Ok([RequireToken |-> requireToken.v,
                          Enabled |-> enabled.v,
                          AuthenticationEnabledUIHelper |-> FALSE,
                          Networks |-> networks.v])

\* what inflateTeamsLocationEndpoint makes of the outcome r of the inflation
\* of one kind: its error is replaced by one that names the kind
KindInflated(r, msg) == IF r.status = "error" THEN Errorf(msg) ELSE r

\* the body of the loop of inflateTeamsLocationEndpoint, which returns in
\* its first iteration
InflateEndpointItem(i) ==
    IF i.t # "map" THEN Errorf("error parsing endpoint")
    ELSE LET ipv4Endpoint == inflateIpv4Endpoint(MapGet(i, "ipv4")) IN
         IF ipv4Endpoint.status # "ok"
         THEN KindInflated(ipv4Endpoint, "error parsing ipv4 endpoint")
         ELSE LET ipv6Endpoint == inflateIpv6Endpoint(MapGet(i, "ipv6")) IN
         IF ipv6Endpoint.status # "ok"
         THEN KindInflated(ipv6Endpoint, "error parsing ipv6 endpoint")
         ELSE LET dotEndpoint == inflateDoTEndpoint(MapGet(i, "dot")) IN
         IF dotEndpoint.status # "ok"
         THEN KindInflated(dotEndpoint, "error parsing dot endpoint")
         ELSE LET dohEndpoint == inflateDohEndpoint(MapGet(i, "doh")) IN
         IF dohEndpoint.status # "ok"
         THEN KindInflated(dohEndpoint, "error parsing doh endpoint")
         ELSE Ok(Ptr([IPv4Endpoint |-> ipv4Endpoint.v,
                      IPv6Endpoint |-> ipv6Endpoint.v,
                      DotEndpoint |-> dotEndpoint.v,
                      DohEndpoint |-> dohEndpoint.v]))

\* inflateTeamsLocationEndpoint, had it converted the last entry of the list
inflateTeamsLocationEndpoint_LastEntry(endpoint) ==
    IF endpoint = Nil THEN Ok(NilPtr)
    ELSE IF endpoint.t # "list" THEN Errorf("error parsing endpoint list")
    ELSE IF Len(endpoint.v) = 0 THEN Errorf("empty endpoint")
    ELSE InflateEndpointItem(endpoint.v[Len(endpoint.v)])

inflateTeamsLocationEndpoint(endpoint) ==
    IF endpoint = Nil THEN Ok(NilPtr)
    ELSE IF endpoint.t # "list" THEN Errorf("error parsing endpoint list")
    ELSE IF Len(endpoint.v) = 0 THEN Errorf("empty endpoint")
    ELSE InflateEndpointItem(endpoint.v[1])

(***************************************************************************)
(* API struct -> attribute tree: the flatten functions.                     *)
(***************************************************************************)
flattenTeamsLocationNetworks(networks) ==
    [i \in 1..Len(networks) |-> M([network |-> S(networks[i].Network)])]

flattenTeamsLocationNetworksIntoList(networks) ==
    [i \in 1..Len(networks) |-> M([network |-> S(networks[i].Network)])]

flattenTeamsEndpointIpv4Field(field) ==
    ML(<<M([enabled |-> B(field.Enabled),
           authentication_enabled |-> B(field.AuthenticationEnabled)])>>)

flattenTeamsEndpointIpv6Field(field) ==
    ML(<<M([enabled |-> B(field.Enabled),
           authentication_enabled |-> B(field.AuthenticationEnabledUIHelper),
           networks |-> L(flattenTeamsLocationNetworksIntoList(field.Networks))])>>)

flattenTeamsEndpointDOTField(field) ==
    ML(<<M([require_token |-> B(field.RequireToken),
           enabled |-> B(field.Enabled),
           authentication_enabled |-> B(field.AuthenticationEnabledUIHelper),
           networks |-> L(flattenTeamsLocationNetworksIntoList(field.Networks))])>>)

flattenTeamsEndpointDOHField(field) ==
    ML(<<M([require_token |-> B(field.RequireToken),
           enabled |-> B(field.Enabled),
           authentication_enabled |-> B(field.AuthenticationEnabledUIHelper),
           networks |-> L(flattenTeamsLocationNetworksIntoList(field.Networks))])>>)

\* d.Set("endpoints", v) and the d.Get that follows: a list attribute reads
\* back as []interface{} whatever slice type was written to it
ListOfMaps(x) == IF x.t = "maplist" THEN L(x.v) ELSE x

SetEndpoints(v) ==
    L([i \in 1..Len(v.v) |->
          M([k \in DOMAIN v.v[i].v |-> ListOfMaps(v.v[i].v[k])])])

\* endpoint is a pointer: dereferencing a nil pointer panics
flattenTeamsEndpoints(endpoint) ==
    IF endpoint = NilPtr THEN Panic
    ELSE Ok(L(<<M([ipv4 |-> flattenTeamsEndpointIpv4Field(endpoint.v.IPv4Endpoint),
                   ipv6 |-> flattenTeamsEndpointIpv6Field(endpoint.v.IPv6Endpoint),
                   doh |-> flattenTeamsEndpointDOHField(endpoint.v.DohEndpoint),
                   dot |-> flattenTeamsEndpointDOTField(endpoint.v.DotEndpoint)])>>))

(***************************************************************************)
(* The answers of the remote service.                                      *)
(***************************************************************************)
\* the texts err.Error() can give: one that holds the invalid-identifier
\* text inside a longer message, and a failure of another kind
ErrorMessages ==
    { <<"HTTP", "400:", "Location", "ID", "is", "invalid", "(1003)">>,
      <<"connection", "reset:", "Location", "ID", "is", "unknown">> }

\* cloudflare.TeamsLocationEndpoints as the service returns it
EndpointsOf(k) ==
    [IPv4Endpoint |-> [Enabled |-> (k % 2 = 1), AuthenticationEnabled |-> (k % 2 = 0)],
     IPv6Endpoint |-> [Enabled |-> (k % 2 = 0),
                       AuthenticationEnabledUIHelper |-> TRUE,
                       Networks |-> <<[Network |-> <<"net", k>>]>>],
     DotEndpoint |-> [RequireToken |-> (k % 2 = 1),
                      Enabled |-> TRUE,
                      AuthenticationEnabledUIHelper |-> (k % 2 = 1),
                      Networks |-> <<>>],
     DohEndpoint |-> [RequireToken |-> (k % 2 = 0),
                      Enabled |-> (k % 2 = 1),
                      AuthenticationEnabledUIHelper |-> FALSE,
                      Networks |-> <<[Network |-> <<"net", k + 1>>],
                                     [Network |-> <<"net", k>>]>>]]

\* cloudflare.TeamsLocation as the get call returns it; every second record
\* leaves its optional (pointer) fields unset
Location(k) ==
    [Name |-> <<"name", k>>,
     Networks |-> [i \in 1..(1 + (k % 3)) |-> [Network |-> <<"net", i>>]],
     Ip |-> <<"ip", k>>,
     Subdomain |-> <<"sub", k>>,
     AnonymizedLogsEnabled |-> (k % 2 = 1),
     IPv4Destination |-> <<"dst", k>>,
     IPv4DestinationBackup |-> <<"bak", k>>,
     ClientDefault |-> (k % 2 = 0),
     ECSSupport |-> IF k % 2 = 0 THEN NilPtr ELSE Ptr(k % 2 = 1),
     DNSDestinationIPv6BlockID |-> IF k % 2 = 0 THEN NilPtr ELSE Ptr(<<"v6", k>>),
     DNSDestinationIPsID |-> IF k % 2 = 0 THEN NilPtr ELSE Ptr(<<"ips", k>>),
     Endpoints |-> IF k % 2 = 0 THEN NilPtr ELSE Ptr(EndpointsOf(k))]

Locations == {Location(k) : k \in 1..NumLocations}

\* identifiers the service puts in the record it returns from create/update
ServerIds == {s \in Strings : Len(s) <= 1 /\ "/" \notin Range(s)}

Failure(m) == [ok |-> FALSE, msg |-> m, val |-> Nil]
Success(x) == [ok |-> TRUE, msg |-> <<>>, val |-> x]

Failures == {Failure(m) : m \in ErrorMessages}
GetResponses == Failures \cup {Success(l) : l \in Locations}
CreateResponses == Failures \cup {Success([ID |-> i]) : i \in ServerIds}
UpdateResponses == Failures \cup {Success([ID |-> i]) : i \in ServerIds}
DeleteResponses == Failures \cup {Success(Nil)}

(***************************************************************************)
(* The attribute store of a schema.ResourceData.                           *)
(***************************************************************************)
ZeroAttrs ==
    [name |-> <<>>,
     networks |-> SetV({}),
     ip |-> <<>>,
     doh_subdomain |-> <<>>,
     anonymized_logs_enabled |-> FALSE,
     ipv4_destination |-> <<>>,
     ipv4_destination_backup |-> <<>>,
     client_default |-> FALSE,
     ecs_support |-> FALSE,
     dns_destination_ipv6_block_id |-> <<>>,
     dns_destination_ips_id |-> <<>>,
     endpoints |-> L(<<>>)]

\* a well-formed entry of the endpoints list
EndpointEntry(k) ==
    M([ipv4 |-> L(<<M([enabled |-> B(k % 2 = 1),
                       authentication_enabled |-> B(TRUE)])>>),
       ipv6 |-> L(<<M([enabled |-> B(k % 2 = 0),
                       authentication_enabled |-> B(TRUE),
                       networks |-> L(<<M([network |-> S(<<"net", k>>)])>>)])>>),
       dot |-> L(<<M([enabled |-> B(TRUE),
                      require_token |-> B(k % 2 = 1),
                      authentication_enabled |-> B(FALSE),
                      networks |-> L(<<>>)])>>),
       doh |-> L(<<M([enabled |-> B(FALSE),
                      require_token |-> B(TRUE),
                      authentication_enabled |-> B(TRUE),
                      networks |-> L(<<M([network |-> S(<<"net", k>>)]),
                                      M([network |-> S(<<"net", k + 1>>)])>>)])>>)])

\* an entry whose ipv4 list is empty
BadEndpointEntry(k) ==
    M([ipv4 |-> L(<<>>),
       ipv6 |-> L(<<M([enabled |-> B(TRUE), networks |-> L(<<>>)])>>),
       dot |-> Nil,
       doh |-> L(<<B(TRUE)>>)])

\* the shapes the endpoints and networks attributes take in a configuration
ConfigEndpoints(k) ==
    CASE k % 5 = 1 -> L(<<EndpointEntry(k), BadEndpointEntry(k)>>)
      [] k % 5 = 2 -> Nil
      [] k % 5 = 3 -> L(<<>>)
      [] k % 5 = 4 -> L(<<BadEndpointEntry(k)>>)
      [] OTHER -> L(<<EndpointEntry(k)>>)

ConfigNetworks(k) ==
    CASE k % 5 = 1 -> SetV({M([network |-> S(<<"net", 2>>)]), M([network |-> S(<<"net", 1>>)])})
      [] k % 5 = 2 -> Nil
      [] k % 5 = 0 -> L(<<M([network |-> S(<<"net", 1>>)])>>)
      [] OTHER -> SetV({M([network |-> S(<<"net", k>>)])})

\* what the framework puts in the ResourceData from the planned configuration
Config(k) ==
    [ZeroAttrs EXCEPT
       !.name = <<"cfgname", k>>,
       !.networks = ConfigNetworks(k),
       !.client_default = (k % 2 = 1),
       !.ecs_support = (k % 3 = 1),
       !.dns_destination_ipv6_block_id = IF k % 2 = 1 THEN <<"cfgv6", k>> ELSE <<>>,
       !.dns_destination_ips_id = IF k % 3 = 1 THEN <<"cfgips", k>> ELSE <<>>,
       !.endpoints = ConfigEndpoints(k)]

ConfigAccount(k) == [i \in 1..(1 + (k % 2)) |-> "a"]

(***************************************************************************)
(* State: the ResourceData the handlers work on, and what the last         *)
(* invocation did.                                                         *)
(***************************************************************************)
VARIABLES
    id,       \* d.Id(), the stored identifier
    account,  \* the account_id attribute
    attrs,    \* the other attributes of the ResourceData
    op,       \* the operation that ran last
    result,   \* what it returned
    log,      \* the calls, SetIds and Reads it performed, in program order
    conv      \* a converter under test: its input and what it returned

vars == <<id, account, attrs, op, result, log, conv>>

\* no converter is under test
NoConv == [fam |-> "none"]

\* entries of the log
Call(api, acct, ident, payload, resp) ==
    [ev |-> "call", api |-> api, acct |-> acct, id |-> ident,
     payload |-> payload, resp |-> resp]
SetIdEv(ident) ==
    [ev |-> "SetId", api |-> "", acct |-> <<>>, id |-> ident,
     payload |-> Nil, resp |-> Nil]
ReadEv(ident) ==
    [ev |-> "Read", api |-> "", acct |-> <<>>, id |-> ident,
     payload |-> Nil, resp |-> Nil]

\* what a handler leaves behind: the ResourceData, how it ended ("ok": no
\* error, "error": an error is returned, "panic": it aborted), the text of
\* the error, the number of ResourceData returned (Import) and its log
Outcome(d, status, err, res, lg) ==
    [d |-> d, status |-> status, err |-> err, res |-> res, log |-> lg]

\* d.Set(key, value) with a pointer value: the pointed-to value, and the
\* zero value for a nil pointer
Deref(p, zero) == IF p = NilPtr THEN zero ELSE p.v

(***************************************************************************)
(* The handlers.  d is the ResourceData on entry; g, c, u, x are the       *)
(* answers of the service to the get, create, update and delete calls.     *)
(***************************************************************************)
\* ReadGetFailed, had it cleared the identifier before looking at the error
ReadGetFailed_ClearFirst(d, err, lg) ==
    LET cleared == [d EXCEPT !.id = EmptyString] IN
    IF Contains(err, InvalidIdText)
    THEN Outcome(cleared, "ok", "", 0, Append(lg, SetIdEv(EmptyString)))
    ELSE Outcome(cleared, "error", "error finding Teams Location", 0,
                 Append(lg, SetIdEv(EmptyString)))

\* Read, when the get call failed with err: the identifier is cleared if the
\* error text says that it is invalid, any other error is returned
ReadGetFailed(d, err, lg) ==
    IF Contains(err, InvalidIdText)
    THEN Outcome([d EXCEPT !.id = EmptyString], "ok", "", 0,
                 Append(lg, SetIdEv(EmptyString)))
    ELSE Outcome(d, "error", "error finding Teams Location", 0, lg)

\* ReadSetAttrs, had ipv4_destination_backup been written from
\* location.IPv4Destination
ReadSetAttrs_WrongBackup(a, location) ==
    [a EXCEPT
       !.name = location.Name,
       !.networks = SetV(Range(flattenTeamsLocationNetworks(location.Networks))),
       !.ip = location.Ip,
       !.doh_subdomain = location.Subdomain,
       !.anonymized_logs_enabled = location.AnonymizedLogsEnabled,
       !.ipv4_destination = location.IPv4Destination,
       !.ipv4_destination_backup = location.IPv4Destination,
       !.client_default = location.ClientDefault,
       !.ecs_support = Deref(location.ECSSupport, FALSE),
       !.dns_destination_ipv6_block_id =
            Deref(location.DNSDestinationIPv6BlockID, EmptyString),
       !.dns_destination_ips_id = Deref(location.DNSDestinationIPsID, EmptyString)]

\* the d.Set calls of Read that come before the endpoints
ReadSetAttrs(a, location) ==
    [a EXCEPT
       !.name = location.Name,
       !.networks = SetV(Range(flattenTeamsLocationNetworks(location.Networks))),
       !.ip = location.Ip,
       !.doh_subdomain = location.Subdomain,
       !.anonymized_logs_enabled = location.AnonymizedLogsEnabled,
       !.ipv4_destination = location.IPv4Destination,
       !.ipv4_destination_backup = location.IPv4DestinationBackup,
       !.client_default = location.ClientDefault,
       !.ecs_support = Deref(location.ECSSupport, FALSE),
       !.dns_destination_ipv6_block_id =
            Deref(location.DNSDestinationIPv6BlockID, EmptyString),
       !.dns_destination_ips_id = Deref(location.DNSDestinationIPsID, EmptyString)]

resourceCloudflareTeamsLocationRead(d, g) ==
    LET lg == <<ReadEv(d.id), Call("TeamsLocation", d.account, d.id, Nil, g)>> IN
    IF ~g.ok THEN ReadGetFailed(d, g.msg, lg)
    ELSE
        LET location == g.val
            a1 == ReadSetAttrs(d.attrs, location)
            endpoints == flattenTeamsEndpoints(location.Endpoints)
        IN IF endpoints.status = "panic"
           THEN Outcome([d EXCEPT !.attrs = a1], "panic", "nil pointer dereference", 0, lg)
           ELSE Outcome([d EXCEPT !.attrs = [a1 EXCEPT !.endpoints = SetEndpoints(endpoints.v)]],
                        "ok", "", 0, lg)

\* ThenRead, had the handler returned without calling Read
ThenRead_NoRead(prefix, d, g) == Outcome(d, "ok", "", 0, prefix)

\* ThenRead, had it tried the Read a second time after a Read that failed
ThenRead_Retry(prefix, d, g) ==
    LET r == resourceCloudflareTeamsLocationRead(d, g)
        again == resourceCloudflareTeamsLocationRead(d, g)
    IN IF r.status = "error"
       THEN [again EXCEPT !.log = prefix \o r.log \o again.log]
       ELSE [r EXCEPT !.log = prefix \o r.log]

\* a handler that goes on with Read: what it logged so far, then Read's
ThenRead(prefix, d, g) ==
    LET r == resourceCloudflareTeamsLocationRead(d, g)
    IN [r EXCEPT !.log = prefix \o r.log]

\* Create, had it sent the location before converting the endpoints
resourceCloudflareTeamsLocationCreate_CallFirst(d, c, g) ==
    LET networks == inflateTeamsLocationNetworks(d.attrs.networks)
        endpoints == inflateTeamsLocationEndpoint(d.attrs.endpoints)
    IN
    IF networks.status = "panic" THEN Outcome(d, "panic", "type assertion", 0, <<>>)
    ELSE IF networks.status = "error"
    THEN Outcome(d, "error", "error creating Teams Location", 0, <<>>)
    ELSE IF endpoints.status # "ok"
    THEN LET early == Call("CreateTeamsLocation", d.account, EmptyString,
                           [Name |-> d.attrs.name, Networks |-> networks.v], c)
         IN Outcome(d, endpoints.status, "error creating Teams Location endpoints", 0,
                    <<early>>)
    ELSE
        LET newTeamLocation ==
                [ID |-> EmptyString,
                 Name |-> d.attrs.name,
                 Networks |-> networks.v,
                 ClientDefault |-> d.attrs.client_default,
                 ECSSupport |-> Ptr(d.attrs.ecs_support),
                 Endpoints |-> endpoints.v,
                 DNSDestinationIPsID |->
                     IF d.attrs.dns_destination_ips_id # EmptyString
                     THEN Ptr(d.attrs.dns_destination_ips_id) ELSE NilPtr,
                 DNSDestinationIPv6BlockID |->
                     IF d.attrs.dns_destination_ipv6_block_id # EmptyString
                     THEN Ptr(d.attrs.dns_destination_ipv6_block_id) ELSE NilPtr]
            call == Call("CreateTeamsLocation", d.account, EmptyString, newTeamLocation, c)
        IN IF ~c.ok
           THEN Outcome(d, "error", "error creating Teams Location", 0, <<call>>)
           ELSE ThenRead(<<call, SetIdEv(c.val.ID)>>, [d EXCEPT !.id = c.val.ID], g)

resourceCloudflareTeamsLocationCreate(d, c, g) ==
    LET networks == inflateTeamsLocationNetworks(d.attrs.networks)
        endpoints == inflateTeamsLocationEndpoint(d.attrs.endpoints)
    IN
    IF networks.status = "panic" THEN Outcome(d, "panic", "type assertion", 0, <<>>)
    ELSE IF networks.status = "error"
    THEN Outcome(d, "error", "error creating Teams Location", 0, <<>>)
    ELSE IF endpoints.status = "panic" THEN Outcome(d, "panic", "type assertion", 0, <<>>)
    ELSE IF endpoints.status = "error"
    THEN Outcome(d, "error", "error creating Teams Location endpoints", 0, <<>>)
    ELSE
        LET newTeamLocation ==
                [ID |-> EmptyString,
                 Name |-> d.attrs.name,
                 Networks |-> networks.v,
                 ClientDefault |-> d.attrs.client_default,
                 ECSSupport |-> Ptr(d.attrs.ecs_support),
                 Endpoints |-> endpoints.v,
                 DNSDestinationIPsID |->
                     IF d.attrs.dns_destination_ips_id # EmptyString
                     THEN Ptr(d.attrs.dns_destination_ips_id) ELSE NilPtr,
                 DNSDestinationIPv6BlockID |->
                     IF d.attrs.dns_destination_ipv6_block_id # EmptyString
                     THEN Ptr(d.attrs.dns_destination_ipv6_block_id) ELSE NilPtr]
            call == Call("CreateTeamsLocation", d.account, EmptyString, newTeamLocation, c)
        IN IF ~c.ok
           THEN Outcome(d, "error", "error creating Teams Location", 0, <<call>>)
           ELSE ThenRead(<<call, SetIdEv(c.val.ID)>>, [d EXCEPT !.id = c.val.ID], g)

\* UpdateResponseError, without the test of the returned identifier
UpdateResponseError_NoIdTest(u) ==
    IF ~u.ok THEN "error updating Teams Location" ELSE ""

\* the error Update returns for the answer u of the update call, "" for none
UpdateResponseError(u) ==
    IF ~u.ok THEN "error updating Teams Location"
    ELSE IF u.val.ID = EmptyString
    THEN "failed to find Teams Location ID in update response"
    ELSE ""

resourceCloudflareTeamsLocationUpdate(d, u, g) ==
    LET networks == inflateTeamsLocationNetworks(d.attrs.networks) IN
    IF networks.status = "panic" THEN Outcome(d, "panic", "type assertion", 0, <<>>)
    ELSE IF networks.status = "error"
    THEN Outcome(d, "error", "error updating Teams Location", 0, <<>>)
    ELSE
        LET updatedTeamsLocation ==
                [ID |-> d.id,
                 Name |-> d.attrs.name,
                 Networks |-> networks.v,
                 ClientDefault |-> d.attrs.client_default,
                 ECSSupport |-> Ptr(d.attrs.ecs_support),
                 Endpoints |-> NilPtr,
                 DNSDestinationIPsID |-> NilPtr,
                 DNSDestinationIPv6BlockID |-> NilPtr]
            call == Call("UpdateTeamsLocation", d.account, d.id, updatedTeamsLocation, u)
            err == UpdateResponseError(u)
        IN IF err # ""
           THEN Outcome(d, "error", err, 0, <<call>>)
           ELSE ThenRead(<<call>>, d, g)

\* Delete, had it gone on with Read after a failed delete call
resourceCloudflareTeamsLocationDelete_ReadAnyway(d, x, g) ==
    LET call == Call("DeleteTeamsLocation", d.account, d.id, Nil, x)
        r == ThenRead(<<call>>, d, g)
    IN IF ~x.ok /\ r.status # "panic"
       THEN Outcome(r.d, "error", "error deleting Teams Location", 0, r.log)
       ELSE r

\* Delete, had it dropped what Read returns
resourceCloudflareTeamsLocationDelete_DropRead(d, x, g) ==
    LET call == Call("DeleteTeamsLocation", d.account, d.id, Nil, x) IN
    IF ~x.ok
    THEN Outcome(d, "error", "error deleting Teams Location", 0, <<call>>)
    ELSE LET r == ThenRead(<<call>>, d, g)
         IN IF r.status = "panic" THEN r ELSE Outcome(r.d, "ok", "", 0, r.log)

resourceCloudflareTeamsLocationDelete(d, x, g) ==
    LET call == Call("DeleteTeamsLocation", d.account, d.id, Nil, x) IN
    IF ~x.ok
    THEN Outcome(d, "error", "error deleting Teams Location", 0, <<call>>)
    ELSE ThenRead(<<call>>, d, g)

\* Import, had it seeded the account before checking the number of parts
resourceCloudflareTeamsLocationImport_SeedFirst(d, g) ==
    LET attributes == SplitN2(d.id, "/")
        seeded == [d EXCEPT !.account = attributes[1]]
    IN
    IF Len(attributes) # 2
    THEN Outcome(seeded, "error", "invalid id specified", 0, <<>>)
    ELSE
        LET teamsLocationID == attributes[2]
            r == ThenRead(<<SetIdEv(teamsLocationID)>>,
                          [seeded EXCEPT !.id = teamsLocationID], g)
        IN IF r.status = "panic" THEN r
           ELSE Outcome(r.d, "ok", "", 1, r.log)

resourceCloudflareTeamsLocationImport(d, g) ==
    LET attributes == SplitN2(d.id, "/") IN
    IF Len(attributes) # 2
    THEN Outcome(d, "error", "invalid id specified", 0, <<>>)
    ELSE
        LET accountID == attributes[1]
            teamsLocationID == attributes[2]
            r == ThenRead(<<SetIdEv(teamsLocationID)>>,
                          [d EXCEPT !.account = accountID, !.id = teamsLocationID], g)
        IN IF r.status = "panic" THEN r
           ELSE Outcome(r.d, "ok", "", 1, r.log)

(***************************************************************************)
(* Actions.                                                                *)
(***************************************************************************)
D == [id |-> id, account |-> account, attrs |-> attrs]

Returns(name, r) ==
    /\ id' = r.d.id
    /\ account' = r.d.account
    /\ attrs' = r.d.attrs
    /\ op' = name
    /\ result' = [status |-> r.status, err |-> r.err, res |-> r.res]
    /\ log' = r.log
    /\ UNCHANGED conv

Init ==
    /\ id = EmptyString
    /\ account = EmptyString
    /\ attrs = ZeroAttrs
    /\ op = "New"
    /\ result = [status |-> "ok", err |-> "", res |-> 0]
    /\ log = <<>>
    /\ conv = NoConv

\* the framework hands the handlers a new ResourceData: nothing but the
\* identifier is set (the import identifier, or none for a resource that is
\* about to be created)
New ==
    \E s \in Strings :
        Returns("New", Outcome([id |-> s, account |-> EmptyString, attrs |-> ZeroAttrs],
                               "ok", "", 0, <<>>))

\* the framework writes the planned configuration to the ResourceData
Plan ==
    \E k \in 1..NumConfigs :
        Returns("Plan", Outcome([D EXCEPT !.account = ConfigAccount(k), !.attrs = Config(k)],
                                "ok", "", 0, <<>>))

Read ==
    \E g \in GetResponses :
        Returns("Read", resourceCloudflareTeamsLocationRead(D, g))

Create ==
    \E c \in CreateResponses, g \in GetResponses :
        Returns("Create", resourceCloudflareTeamsLocationCreate(D, c, g))

Update ==
    \E u \in UpdateResponses, g \in GetResponses :
        Returns("Update", resourceCloudflareTeamsLocationUpdate(D, u, g))

Delete ==
    \E x \in DeleteResponses, g \in GetResponses :
        Returns("Delete", resourceCloudflareTeamsLocationDelete(D, x, g))

Import ==
    \E g \in GetResponses :
        Returns("Import", resourceCloudflareTeamsLocationImport(D, g))

Next == New \/ Plan \/ Read \/ Create \/ Update \/ Delete \/ Import

Spec == Init /\ [][Next]_vars

TypeOK ==
    /\ id \in Seq(Alphabet)
    /\ op \in {"New", "Plan", "Read", "Create", "Update", "Delete", "Import"}
    /\ result.status \in {"ok", "error", "panic"}

(***************************************************************************)
(* Vocabulary of the properties.                                           *)
(***************************************************************************)
Handlers == {"Read", "Create", "Update", "Delete", "Import"}

\* the error text says that the location identifier is invalid
IsInvalidIdMessage(m) ==
    \E i \in 1..Len(m) :
        /\ i + 3 <= Len(m)
        /\ m[i] = "Location" /\ m[i + 1] = "ID" /\ m[i + 2] = "is" /\ m[i + 3] = "invalid"

IsCall(e, api) == e.ev = "call" /\ e.api = api
CallOk(e, api) == IsCall(e, api) /\ e.resp.ok
CallFailed(e, api) == IsCall(e, api) /\ ~e.resp.ok
FailedInvalid(e, api) == CallFailed(e, api) /\ IsInvalidIdMessage(e.resp.msg)
FailedOther(e, api) == CallFailed(e, api) /\ ~IsInvalidIdMessage(e.resp.msg)

\* in the log lg: the get failed with the invalid-identifier error, with
\* another error
GetFailedInvalid(lg) == \E i \in 1..Len(lg) : FailedInvalid(lg[i], "TeamsLocation")
GetFailedOther(lg) == \E i \in 1..Len(lg) : FailedOther(lg[i], "TeamsLocation")

\* number of Reads performed, and of calls made to the service, in lg
NumReads(lg) == Cardinality({i \in 1..Len(lg) : lg[i].ev = "Read"})
NumCalls(lg) == Cardinality({i \in 1..Len(lg) : lg[i].ev = "call"})

\* C1: a Read whose get call fails with an error that contains "Location ID
\* is invalid" ends with an empty stored identifier and returns no error,
\* whatever the identifier and the attributes were before.
C1_ReadClearsInvalidId ==
    (op = "Read" /\ GetFailedInvalid(log)) =>
        (id = EmptyString /\ result.status = "ok" /\ result.err = "")

\* a Read of a non-empty identifier of a populated resource was answered
\* with the invalid-identifier text inside a longer message, and cleared it
C1_Witness ==
    /\ op = "Read"
    /\ \E i \in 1..Len(log) :
          /\ FailedInvalid(log[i], "TeamsLocation")
          /\ log[i].resp.msg # InvalidIdText
          /\ log[i].id # EmptyString
    /\ attrs.name # EmptyString
    /\ id = EmptyString

\* C2: a Read whose get call fails with any other error returns an error and
\* leaves the stored identifier and every attribute as they were.
C2_ReadOtherErrorKeepsState ==
    [][(op' = "Read" /\ GetFailedOther(log')) =>
          /\ result'.status = "error"
          /\ id' = id
          /\ account' = account
          /\ attrs' = attrs]_vars

C2_Witness ==
    /\ op = "Read"
    /\ GetFailedOther(log)
    /\ result.status = "error"
    /\ id # EmptyString
    /\ attrs.name # EmptyString

\* C3: in a Create, the identifier is stored right after the create call has
\* succeeded and is the one the service returned; exactly one Read, of that
\* identifier, follows before Create returns; without a successful create
\* call the identifier is not touched.
C3_CreateStoresIdThenReadsOnce ==
    [][op' = "Create" =>
          LET lg == log'
              n == Len(lg)
              created == {i \in 1..n : CallOk(lg[i], "CreateTeamsLocation")}
          IN /\ \A i \in created :
                   /\ i + 3 <= n
                   /\ lg[i + 1].ev = "SetId" /\ lg[i + 1].id = lg[i].resp.val.ID
                   /\ lg[i + 2].ev = "Read" /\ lg[i + 2].id = lg[i].resp.val.ID
                   /\ IsCall(lg[i + 3], "TeamsLocation")
                   /\ lg[i + 3].id = lg[i].resp.val.ID
                   /\ NumReads(lg) = 1
                   /\ \/ id' = lg[i].resp.val.ID
                      \/ id' = EmptyString /\ GetFailedInvalid(lg)
             /\ \A j \in 1..n : lg[j].ev = "SetId" => \E i \in created : i < j
             /\ created = {} => (id' = id /\ NumReads(lg) = 0)]_vars

C3_Witness ==
    /\ op = "Create"
    /\ result.status = "ok"
    /\ Len(log) = 4
    /\ CallOk(log[1], "CreateTeamsLocation")
    /\ log[2].ev = "SetId"
    /\ log[3].ev = "Read"
    /\ id # EmptyString
    /\ id = log[1].resp.val.ID

\* the attributes a are those of the record location of the service: each
\* attribute Read writes holds the value of the record's field (the zero
\* value where the record leaves an optional field unset)
EndpointField(tree, kind, key) == tree.v[1].v[kind].v[1].v[key].v
EndpointNetworks(tree, kind) ==
    LET l == tree.v[1].v[kind].v[1].v["networks"].v
    IN [i \in 1..Len(l) |-> l[i].v["network"].v]
NetworkNames(networks) == [i \in 1..Len(networks) |-> networks[i].Network]

HoldsRecord(a, location) ==
    /\ a.name = location.Name
    /\ a.networks.t = "set"
    /\ {e.v["network"].v : e \in a.networks.v} = Range(NetworkNames(location.Networks))
    /\ a.ip = location.Ip
    /\ a.doh_subdomain = location.Subdomain
    /\ a.anonymized_logs_enabled = location.AnonymizedLogsEnabled
    /\ a.ipv4_destination = location.IPv4Destination
    /\ a.ipv4_destination_backup = location.IPv4DestinationBackup
    /\ a.client_default = location.ClientDefault
    /\ a.ecs_support = (location.ECSSupport.t = "ptr" /\ location.ECSSupport.v)
    /\ a.dns_destination_ipv6_block_id =
          (IF location.DNSDestinationIPv6BlockID.t = "ptr"
           THEN location.DNSDestinationIPv6BlockID.v ELSE EmptyString)
    /\ a.dns_destination_ips_id =
          (IF location.DNSDestinationIPsID.t = "ptr"
           THEN location.DNSDestinationIPsID.v ELSE EmptyString)
    /\ location.Endpoints.t = "ptr"
    /\ a.endpoints.t = "list" /\ Len(a.endpoints.v) = 1
    /\ LET e == location.Endpoints.v
           t == a.endpoints
       IN /\ EndpointField(t, "ipv4", "enabled") = e.IPv4Endpoint.Enabled
          /\ EndpointField(t, "ipv4", "authentication_enabled") =
                e.IPv4Endpoint.AuthenticationEnabled
          /\ EndpointField(t, "ipv6", "enabled") = e.IPv6Endpoint.Enabled
          /\ EndpointField(t, "ipv6", "authentication_enabled") =
                e.IPv6Endpoint.AuthenticationEnabledUIHelper
          /\ EndpointNetworks(t, "ipv6") = NetworkNames(e.IPv6Endpoint.Networks)
          /\ EndpointField(t, "dot", "enabled") = e.DotEndpoint.Enabled
          /\ EndpointField(t, "dot", "require_token") = e.DotEndpoint.RequireToken
          /\ EndpointField(t, "dot", "authentication_enabled") =
                e.DotEndpoint.AuthenticationEnabledUIHelper
          /\ EndpointNetworks(t, "dot") = NetworkNames(e.DotEndpoint.Networks)
          /\ EndpointField(t, "doh", "enabled") = e.DohEndpoint.Enabled
          /\ EndpointField(t, "doh", "require_token") = e.DohEndpoint.RequireToken
          /\ EndpointField(t, "doh", "authentication_enabled") =
                e.DohEndpoint.AuthenticationEnabledUIHelper
          /\ EndpointNetworks(t, "doh") = NetworkNames(e.DohEndpoint.Networks)

\* C4: after a Create or an Update that returns no error and leaves a
\* non-empty stored identifier, the attributes Read writes hold the record
\* the service returned for that identifier, whatever the configuration was.
C4_AttributesMirrorServiceRecord ==
    (op \in {"Create", "Update"} /\ result.status = "ok" /\ id # EmptyString) =>
        \E i \in 1..Len(log) :
            /\ CallOk(log[i], "TeamsLocation")
            /\ log[i].id = id
            /\ HoldsRecord(attrs, log[i].resp.val)

\* a Create of a configuration whose name, backup destination and endpoints
\* differ from the record the service then returned
C4_Witness ==
    /\ op = "Create"
    /\ result.status = "ok"
    /\ id # EmptyString
    /\ log[1].payload.Name # attrs.name
    /\ log[1].payload.Endpoints.t = "ptr"
    /\ attrs.ipv4_destination_backup # EmptyString
    /\ attrs.ipv4_destination_backup # attrs.ipv4_destination

\* C5: the payload of Update carries the stored identifier; when the update
\* call fails, or succeeds with a record whose identifier is empty, Update
\* returns an error, performs no Read and leaves the identifier and the
\* attributes unchanged; otherwise it performs exactly one Read.
C5_UpdateChecksResponse ==
    [][op' = "Update" =>
          \A i \in 1..Len(log') :
              IsCall(log'[i], "UpdateTeamsLocation") =>
                  /\ log'[i].payload.ID = id
                  /\ IF ~log'[i].resp.ok \/ log'[i].resp.val.ID = EmptyString
                     THEN /\ result'.status = "error"
                          /\ NumReads(log') = 0
                          /\ id' = id
                          /\ account' = account
                          /\ attrs' = attrs
                     ELSE NumReads(log') = 1]_vars

\* an Update of a stored identifier was answered with an empty identifier
C5_Witness ==
    /\ op = "Update"
    /\ result.status = "error"
    /\ id # EmptyString
    /\ Len(log) = 1
    /\ CallOk(log[1], "UpdateTeamsLocation")
    /\ log[1].resp.val.ID = EmptyString
    /\ log[1].payload.ID = id

C7_DeleteOutcomeIsThatOfRead ==
    (op = "Delete" /\ \E i \in 1..Len(log) : CallOk(log[i], "DeleteTeamsLocation")) =>
        /\ GetFailedInvalid(log) => (id = EmptyString /\ result.status = "ok")
        /\ GetFailedOther(log) => result.status = "error"

\* the remote deletion of a stored identifier succeeded and the follow-up
\* get failed with an error of another kind
C7_Witness ==
    /\ op = "Delete"
    /\ Len(log) = 3
    /\ CallOk(log[1], "DeleteTeamsLocation")
    /\ log[1].id # EmptyString
    /\ FailedOther(log[3], "TeamsLocation")
    /\ result.status = "error"
    /\ id = log[1].id

\* s contains at least one "/"
HasSlash(s) == \E i \in 1..Len(s) : s[i] = "/"

\* C8: for an import identifier with at least one "/", Import sets the
\* account to the text before the first "/" and the stored identifier to
\* all the text after it, and then performs one Read of that identifier.
C8_ImportSplitsAtFirstSlash ==
    [][(op' = "Import" /\ HasSlash(id)) =>
          /\ ~HasSlash(account')
          /\ Len(log') >= 3
          /\ log'[1].ev = "SetId"
          /\ account' \o <<"/">> \o log'[1].id = id
          /\ log'[2].ev = "Read" /\ log'[2].id = log'[1].id
          /\ IsCall(log'[3], "TeamsLocation")
          /\ log'[3].id = log'[1].id /\ log'[3].acct = account'
          /\ NumReads(log') = 1
          /\ \/ id' = log'[1].id
             \/ id' = EmptyString /\ GetFailedInvalid(log')]_vars

\* an Import of "a//": the account is "a" and the identifier "/"
C8_Witness ==
    /\ op = "Import"
    /\ result.status = "ok"
    /\ result.res = 1
    /\ account = <<"a">>
    /\ id = <<"/">>
    /\ log[1].ev = "SetId" /\ log[1].id = <<"/">>
    /\ log[2].ev = "Read"

\* C9: for an import identifier without "/", Import returns an error and no
\* resource, calls nothing and leaves the account and the stored identifier
\* unchanged.
C9_ImportRejectsIdWithoutSlash ==
    [][(op' = "Import" /\ ~HasSlash(id)) =>
          /\ result'.status = "error"
          /\ result'.res = 0
          /\ log' = <<>>
          /\ id' = id
          /\ account' = account
          /\ attrs' = attrs]_vars

\* an Import of "aa" on a ResourceData whose account is "a" failed
C9_Witness ==
    /\ op = "Import"
    /\ result.status = "error"
    /\ result.res = 0
    /\ log = <<>>
    /\ id = <<"a", "a">>
    /\ account = <<"a">>

\* C10: in each of Create, Read, Update, Delete and Import, a call to the
\* service that fails with an error other than the invalid-identifier error
\* makes the operation report an error.
C10_ServiceFailureIsReported ==
    (op \in Handlers /\ \E i \in 1..Len(log) :
                            log[i].ev = "call" /\ FailedOther(log[i], log[i].api)) =>
        result.status = "error"

\* C11: one invocation of a handler calls the service at most twice and
\* repeats no call: Read and Import make at most one get call and no other;
\* Create, Update and Delete make at most one mutating call, their own, and
\* at most one get call, which never precedes the mutating call.
MutatingApi(name) ==
    CASE name = "Create" -> "CreateTeamsLocation"
      [] name = "Update" -> "UpdateTeamsLocation"
      [] name = "Delete" -> "DeleteTeamsLocation"
      [] OTHER -> "none"

C11_AtMostOneMutationThenOneGet ==
    op \in Handlers =>
        LET calls == {i \in 1..Len(log) : log[i].ev = "call"}
            gets == {i \in calls : log[i].api = "TeamsLocation"}
            muts == calls \ gets
        IN /\ Cardinality(calls) <= 2
           /\ Cardinality(gets) <= 1
           /\ Cardinality(muts) <= 1
           /\ \A i \in muts : log[i].api = MutatingApi(op)
           /\ \A i \in gets, j \in muts : j < i

\* an Update made its update call, then one get call that failed
C11_Witness ==
    /\ op = "Update"
    /\ NumCalls(log) = 2
    /\ IsCall(log[1], "UpdateTeamsLocation")
    /\ FailedOther(log[Len(log)], "TeamsLocation")
    /\ result.status = "error"

(***************************************************************************)
(* The converters of schema_cloudflare_access_application.go.              *)
(* A converter is a function of the configuration d and of the struct it   *)
(* is handed; conv holds the input drawn for it and what it returned.      *)
(***************************************************************************)
NumOrigins == 2
NumMethods == 2

\* the strings of a CORS block; "*" is the wildcard origin
Wildcard == <<"*", 0>>
Origin(i) == <<"origin", i>>
Method(i) == <<"method", i>>
Header(i) == <<"header", i>>

\* (*schema.Set).List() handed to expandInterfaceToStringList: the members
\* of the set, each once, in the order of their hashes
RECURSIVE StringList(_)
StringList(T) ==
    IF T = {} THEN <<>>
    ELSE LET x == CHOOSE y \in T : TRUE
         IN <<x>> \o StringList(T \ {x})

\* what a converter returns: a pointer and a nil error, or nil and an error
Returned(x) == [status |-> "ok", err |-> "", v |-> Ptr(x)]
Rejected(msg) == [status |-> "error", err |-> msg, v |-> NilPtr]

\* d.GetOk on a list or set attribute: ok when it is not the zero value
GetOkList(list) == Len(list) > 0
GetOkSet(T) == T # {}

\* the cors_headers blocks a configuration can hold
CorsBlocks ==
    [allowed_methods : SUBSET {Method(i) : i \in 1..NumMethods},
     allowed_headers : {{}, {Header(1)}},
     allowed_origins : SUBSET ({Wildcard} \cup {Origin(i) : i \in 1..NumOrigins}),
     allow_all_methods : BOOLEAN,
     allow_all_headers : {FALSE},
     allow_all_origins : BOOLEAN,
     allow_credentials : BOOLEAN,
     max_age : {600}]

\* the configurations: cors_headers is a list of at most one block
CorsConfigs ==
    {[cors_headers |-> <<>>]} \cup {[cors_headers |-> <<b>>] : b \in CorsBlocks}

\* cloudflare.AccessApplicationCorsHeaders{}
ZeroCorsHeaders ==
    [AllowedMethods |-> <<>>, AllowedOrigins |-> <<>>, AllowedHeaders |-> <<>>,
     AllowAllMethods |-> FALSE, AllowAllHeaders |-> FALSE, AllowAllOrigins |-> FALSE,
     AllowCredentials |-> FALSE, MaxAge |-> 0]

\* the fields read from the block
CorsFields(b) ==
    [AllowedMethods |-> IF GetOkSet(b.allowed_methods) THEN StringList(b.allowed_methods) ELSE <<>>,
     AllowedHeaders |-> IF GetOkSet(b.allowed_headers) THEN StringList(b.allowed_headers) ELSE <<>>,
     AllowedOrigins |-> IF GetOkSet(b.allowed_origins) THEN StringList(b.allowed_origins) ELSE <<>>,
     AllowAllMethods |-> b.allow_all_methods,
     AllowAllHeaders |-> b.allow_all_headers,
     AllowAllOrigins |-> b.allow_all_origins,
     AllowCredentials |-> b.allow_credentials,
     MaxAge |-> b.max_age]

\* credentials with all origins allowed
CorsCredentialsRejected_FlagOnly(CORSConfig) ==
    CORSConfig.AllowCredentials /\ CORSConfig.AllowAllOrigins

CorsCredentialsRejected(CORSConfig) ==
    /\ CORSConfig.AllowCredentials
    /\ \/ Wildcard \in Range(CORSConfig.AllowedOrigins)
       \/ CORSConfig.AllowAllOrigins

\* origins are set and the methods were forgotten
CorsMethodsMissing_ListOnly(CORSConfig) ==
    /\ Len(CORSConfig.AllowedOrigins) > 1
    /\ CORSConfig.AllowAllMethods = FALSE /\ Len(CORSConfig.AllowedMethods) = 0

CorsMethodsMissing(CORSConfig) ==
    /\ CORSConfig.AllowAllOrigins \/ Len(CORSConfig.AllowedOrigins) > 1
    /\ CORSConfig.AllowAllMethods = FALSE /\ Len(CORSConfig.AllowedMethods) = 0

\* methods are set and the origins were forgotten
CorsOriginsMissing(CORSConfig) ==
    /\ CORSConfig.AllowAllMethods \/ Len(CORSConfig.AllowedMethods) > 1
    /\ CORSConfig.AllowAllOrigins = FALSE /\ Len(CORSConfig.AllowedOrigins) = 0

CredentialsMessage == "CORS credentials are not permitted when all origins are allowed"
MethodsMessage == "must set allowed_methods or allow_all_methods"
OriginsMessage == "must set allowed_origins or allow_all_origins"

convertCORSSchemaToStruct(d) ==
    IF GetOkList(d.cors_headers)
    THEN LET CORSConfig == CorsFields(d.cors_headers[1])
         IN IF CorsCredentialsRejected(CORSConfig) THEN Rejected(CredentialsMessage)
            ELSE IF CorsMethodsMissing(CORSConfig) THEN Rejected(MethodsMessage)
            ELSE IF CorsOriginsMissing(CORSConfig) THEN Rejected(OriginsMessage)
            ELSE Returned(CORSConfig)
    ELSE Returned(ZeroCorsHeaders)

\* the structs the service can return for cors_headers
CorsStructs ==
    {NilPtr, Ptr(ZeroCorsHeaders),
     Ptr([ZeroCorsHeaders EXCEPT !.AllowedOrigins = <<Origin(1)>>,
                                 !.AllowedMethods = <<Method(1)>>,
                                 !.AllowCredentials = TRUE, !.MaxAge = 600])}

convertCORSStructToSchema(d, headers) ==
    IF ~GetOkList(d.cors_headers) THEN <<>>
    ELSE IF headers = NilPtr THEN <<>>
    ELSE LET h == headers.v
         IN <<[allow_all_methods |-> h.AllowAllMethods,
               allow_all_headers |-> h.AllowAllHeaders,
               allow_all_origins |-> h.AllowAllOrigins,
               allow_credentials |-> h.AllowCredentials,
               max_age |-> h.MaxAge,
               allowed_methods |-> h.AllowedMethods,
               allowed_headers |-> h.AllowedHeaders,
               allowed_origins |-> h.AllowedOrigins]>>

(***************************************************************************)
(* saas_app: cloudflare.SaasApplication and its attribute tree.            *)
(***************************************************************************)
NumUris == 2
NumClaims == 2

\* an opaque non-empty string; the empty string is EmptyString
Text(kind, k) == <<kind, k>>

EmptyMap == [k \in {} |-> EmptyString]

\* var app cloudflare.SaasApplication
ZeroSaasApplication ==
    [AuthType |-> "", ClientID |-> EmptyString, ClientSecret |-> EmptyString,
     PublicKey |-> EmptyString, RedirectURIs |-> <<>>, GrantTypes |-> <<>>,
     Scopes |-> <<>>, GroupFilterRegex |-> EmptyString,
     AccessTokenLifetime |-> EmptyString, AppLauncherURL |-> EmptyString,
     AllowPKCEWithoutClientSecret |-> NilPtr, RefreshTokenOptions |-> NilPtr,
     CustomClaims |-> NilPtr, HybridAndImplicitOptions |-> NilPtr,
     SPEntityID |-> EmptyString, ConsumerServiceUrl |-> EmptyString,
     NameIDFormat |-> EmptyString, IDPEntityID |-> EmptyString,
     SSOEndpoint |-> EmptyString, DefaultRelayState |-> EmptyString,
     NameIDTransformJsonata |-> EmptyString,
     SamlAttributeTransformJsonata |-> EmptyString, CustomAttributes |-> NilPtr]

\* what d.Get returns for the keys of a saas_app element nothing was written
\* to: the zero value of the key's schema type
ZeroSaasAttr ==
    [auth_type |-> "", public_key |-> EmptyString, client_id |-> EmptyString,
     client_secret |-> EmptyString, redirect_uris |-> {}, grant_types |-> {},
     scopes |-> {}, app_launcher_url |-> EmptyString,
     group_filter_regex |-> EmptyString, access_token_lifetime |-> EmptyString,
     allow_pkce_without_client_secret |-> FALSE, refresh_token_options |-> <<>>,
     custom_claim |-> <<>>, hybrid_and_implicit_options |-> <<>>,
     sp_entity_id |-> EmptyString, consumer_service_url |-> EmptyString,
     name_id_format |-> EmptyString, idp_entity_id |-> EmptyString,
     sso_endpoint |-> EmptyString, default_relay_state |-> EmptyString,
     name_id_transform_jsonata |-> EmptyString,
     saml_attribute_transform_jsonata |-> EmptyString, custom_attribute |-> <<>>]

\* the value of key k of a map[string]interface{}, zero when it was not set
AttrOr(m, k, zero) == IF k \in DOMAIN m THEN m[k] ELSE zero

\* a custom_claim or custom_attribute element as the schema stores it
ClaimAttr(m) ==
    [name |-> AttrOr(m, "name", EmptyString),
     scope |-> AttrOr(m, "scope", EmptyString),
     name_format |-> AttrOr(m, "name_format", EmptyString),
     friendly_name |-> AttrOr(m, "friendly_name", EmptyString),
     required |-> AttrOr(m, "required", FALSE),
     source |-> AttrOr(m, "source", <<>>)]

\* a one-element block of two TypeBool keys written from *bool values
HybridAttr(list) ==
    [i \in 1..Len(list) |->
        [return_access_token_from_authorization_endpoint |->
             Deref(list[i].return_access_token_from_authorization_endpoint, FALSE),
         return_id_token_from_authorization_endpoint |->
             Deref(list[i].return_id_token_from_authorization_endpoint, FALSE)]]

\* d.Set("saas_app", list): every key takes the type the schema gives it;
\* the TypeSet keys keep the members of the list written to them, the
\* TypeBool keys the value a *bool points to, the keys not written are zero
SaasAttr(m) ==
    [auth_type |-> AttrOr(m, "auth_type", ""),
     public_key |-> AttrOr(m, "public_key", EmptyString),
     client_id |-> AttrOr(m, "client_id", EmptyString),
     client_secret |-> AttrOr(m, "client_secret", EmptyString),
     redirect_uris |-> Range(AttrOr(m, "redirect_uris", <<>>)),
     grant_types |-> Range(AttrOr(m, "grant_types", <<>>)),
     scopes |-> Range(AttrOr(m, "scopes", <<>>)),
     app_launcher_url |-> AttrOr(m, "app_launcher_url", EmptyString),
     group_filter_regex |-> AttrOr(m, "group_filter_regex", EmptyString),
     access_token_lifetime |-> AttrOr(m, "access_token_lifetime", EmptyString),
     allow_pkce_without_client_secret |->
         Deref(AttrOr(m, "allow_pkce_without_client_secret", NilPtr), FALSE),
     refresh_token_options |-> AttrOr(m, "refresh_token_options", <<>>),
     custom_claim |->
         LET l == AttrOr(m, "custom_claim", <<>>)
         IN [i \in 1..Len(l) |-> ClaimAttr(l[i])],
     hybrid_and_implicit_options |->
         HybridAttr(AttrOr(m, "hybrid_and_implicit_options", <<>>)),
     sp_entity_id |-> AttrOr(m, "sp_entity_id", EmptyString),
     consumer_service_url |-> AttrOr(m, "consumer_service_url", EmptyString),
     name_id_format |-> AttrOr(m, "name_id_format", EmptyString),
     idp_entity_id |-> AttrOr(m, "idp_entity_id", EmptyString),
     sso_endpoint |-> AttrOr(m, "sso_endpoint", EmptyString),
     default_relay_state |-> AttrOr(m, "default_relay_state", EmptyString),
     name_id_transform_jsonata |-> AttrOr(m, "name_id_transform_jsonata", EmptyString),
     saml_attribute_transform_jsonata |->
         AttrOr(m, "saml_attribute_transform_jsonata", EmptyString),
     custom_attribute |->
         LET l == AttrOr(m, "custom_attribute", <<>>)
         IN [i \in 1..Len(l) |-> ClaimAttr(l[i])]]

SetSaasApp(list) == [saas_app |-> [i \in 1..Len(list) |-> SaasAttr(list[i])]]

\* d.Get("saas_app.0.<key>"): the element, or zero values when there is none
SaasApp0(d) == IF Len(d.saas_app) > 0 THEN d.saas_app[1] ELSE ZeroSaasAttr

convertNameByIDP(source) == [k \in DOMAIN source |-> source[k]]

\* the source block of a claim or attribute: the first element when it is a map
ClaimSource(data) ==
    LET sourcesSlice == AttrOr(data, "source", <<>>)
    IN IF Len(sourcesSlice) # 0
       THEN [Name |-> AttrOr(sourcesSlice[1], "name", EmptyString),
             NameByIDP |-> convertNameByIDP(AttrOr(sourcesSlice[1], "name_by_idp", EmptyMap))]
       ELSE [Name |-> EmptyString, NameByIDP |-> EmptyMap]

convertSAMLAttributeSchemaToStruct(data) ==
    [Name |-> AttrOr(data, "name", EmptyString),
     NameFormat |-> AttrOr(data, "name_format", EmptyString),
     Required |-> AttrOr(data, "required", FALSE),
     FriendlyName |-> AttrOr(data, "friendly_name", EmptyString),
     Source |-> ClaimSource(data)]

\* data["required"].(bool) has no second result: it aborts when the key is
\* missing
convertOIDCClaimSchemaToStruct(data) ==
    [Name |-> AttrOr(data, "name", EmptyString),
     Scope |-> AttrOr(data, "scope", EmptyString),
     Required |-> IF "required" \in DOMAIN data THEN Ptr(data["required"]) ELSE Panic,
     Source |-> ClaimSource(data)]

convertSaasOIDCSchemaToStruct(d) ==
    LET a == SaasApp0(d)
        customClaims == a.custom_claim
    IN Ptr([ZeroSaasApplication EXCEPT
           !.AuthType = "oidc",
           !.ClientID = a.client_id,
           !.AppLauncherURL = a.app_launcher_url,
           !.RedirectURIs = StringList(a.redirect_uris),
           !.GrantTypes = StringList(a.grant_types),
           !.Scopes = StringList(a.scopes),
           !.GroupFilterRegex = a.group_filter_regex,
           !.AccessTokenLifetime = a.access_token_lifetime,
           !.AllowPKCEWithoutClientSecret = Ptr(a.allow_pkce_without_client_secret),
           !.RefreshTokenOptions =
               IF GetOkList(a.refresh_token_options)
               THEN Ptr([Lifetime |-> AttrOr(a.refresh_token_options[1], "lifetime", EmptyString)])
               ELSE NilPtr,
           !.CustomClaims =
               IF Len(customClaims) # 0
               THEN Ptr([i \in 1..Len(customClaims) |->
                            convertOIDCClaimSchemaToStruct(customClaims[i])])
               ELSE NilPtr,
           !.HybridAndImplicitOptions =
               IF GetOkList(a.hybrid_and_implicit_options)
               THEN LET h == a.hybrid_and_implicit_options[1]
                    IN Ptr([ReturnAccessTokenFromAuthorizationEndpoint |->
                                Ptr(h.return_access_token_from_authorization_endpoint),
                            ReturnIDTokenFromAuthorizationEndpoint |->
                                Ptr(h.return_id_token_from_authorization_endpoint)])
               ELSE NilPtr])

convertSaasSAMLSchemaToStruct(d) ==
    LET a == SaasApp0(d)
        customAttributes == a.custom_attribute
    IN Ptr([ZeroSaasApplication EXCEPT
           !.AuthType = "saml",
           !.SPEntityID = a.sp_entity_id,
           !.ConsumerServiceUrl = a.consumer_service_url,
           !.NameIDFormat = a.name_id_format,
           !.DefaultRelayState = a.default_relay_state,
           !.NameIDTransformJsonata = a.name_id_transform_jsonata,
           !.SamlAttributeTransformJsonata = a.saml_attribute_transform_jsonata,
           !.CustomAttributes =
               IF Len(customAttributes) # 0
               THEN Ptr([i \in 1..Len(customAttributes) |->
                            convertSAMLAttributeSchemaToStruct(customAttributes[i])])
               ELSE NilPtr])

\* convertSaasSchemaToStruct, had it filled a variant only for its own
\* auth_type and left the struct empty for any other value
convertSaasSchemaToStruct_NoDefault(d) ==
    IF SaasApp0(d).auth_type = "oidc" THEN convertSaasOIDCSchemaToStruct(d)
    ELSE IF SaasApp0(d).auth_type = "saml" THEN convertSaasSAMLSchemaToStruct(d)
    ELSE Ptr(ZeroSaasApplication)

convertSaasSchemaToStruct(d) ==
    IF SaasApp0(d).auth_type = "oidc"
    THEN convertSaasOIDCSchemaToStruct(d)
    ELSE convertSaasSAMLSchemaToStruct(d)

convertRefreshTokenOptionsStructToSchema(options) ==
    IF options = NilPtr THEN <<>>
    ELSE <<[lifetime |-> options.v.Lifetime]>>

\* the keys of a map literal that are set only under a condition
Key(cond, k, v) == IF cond THEN k :> v ELSE EmptyMap

SourceSchema(attr) ==
    <<[name |-> attr.Source.Name, name_by_idp |-> attr.Source.NameByIDP]>>

convertSAMLAttributeStructToSchema(attr) ==
    Key(attr.Name # EmptyString, "name", attr.Name)
    @@ Key(attr.NameFormat # EmptyString, "name_format", attr.NameFormat)
    @@ Key(attr.Required, "required", TRUE)
    @@ Key(attr.FriendlyName # EmptyString, "friendly_name", attr.FriendlyName)
    @@ Key(attr.Source.Name # EmptyString, "source", SourceSchema(attr))

convertOIDCClaimStructToSchema(attr) ==
    Key(attr.Name # EmptyString, "name", attr.Name)
    @@ Key(attr.Scope # EmptyString, "scope", attr.Scope)
    @@ Key(attr.Required # NilPtr /\ Deref(attr.Required, FALSE), "required", TRUE)
    @@ Key(attr.Source.Name # EmptyString, "source", SourceSchema(attr))

convertHybridAndImplicitOptionsStructToSchema(hybridAndImplicitOptions) ==
    IF hybridAndImplicitOptions = NilPtr THEN <<>>
    ELSE <<[return_access_token_from_authorization_endpoint |->
                hybridAndImplicitOptions.v.ReturnAccessTokenFromAuthorizationEndpoint,
            return_id_token_from_authorization_endpoint |->
                hybridAndImplicitOptions.v.ReturnIDTokenFromAuthorizationEndpoint]>>

\* the list a *[]T points to; empty for nil (a range over a nil slice)
PointedList(p) == IF p = NilPtr THEN <<>> ELSE p.v

\* the client secret the ResourceData holds: the service returns it on
\* create only
SaasClientSecretFromState_FromStruct(d, a) ==
    Key(a.ClientSecret # EmptyString, "client_secret", a.ClientSecret)

SaasClientSecretFromState(d, a) ==
    Key(SaasApp0(d).client_secret # EmptyString, "client_secret", SaasApp0(d).client_secret)

convertSaasStructToSchema(d, app) ==
    IF app = NilPtr THEN <<>>
    ELSE LET a == app.v
         IN IF a.AuthType = "oidc"
            THEN LET claims == PointedList(a.CustomClaims)
                     customClaims == [i \in 1..Len(claims) |->
                                         convertOIDCClaimStructToSchema(claims[i])]
                 IN <<[auth_type |-> a.AuthType,
                       client_id |-> a.ClientID,
                       redirect_uris |-> a.RedirectURIs,
                       grant_types |-> a.GrantTypes,
                       scopes |-> a.Scopes,
                       public_key |-> a.PublicKey,
                       group_filter_regex |-> a.GroupFilterRegex,
                       access_token_lifetime |-> a.AccessTokenLifetime,
                       app_launcher_url |-> a.AppLauncherURL,
                       allow_pkce_without_client_secret |-> a.AllowPKCEWithoutClientSecret]
                      @@ Key(a.RefreshTokenOptions # NilPtr, "refresh_token_options",
                             convertRefreshTokenOptionsStructToSchema(a.RefreshTokenOptions))
                      @@ Key(Len(customClaims) # 0, "custom_claim", customClaims)
                      @@ Key(a.HybridAndImplicitOptions # NilPtr, "hybrid_and_implicit_options",
                             convertHybridAndImplicitOptionsStructToSchema(a.HybridAndImplicitOptions))
                      @@ SaasClientSecretFromState(d, a)>>
            ELSE LET attributes == PointedList(a.CustomAttributes)
                     customAttributes == [i \in 1..Len(attributes) |->
                                             convertSAMLAttributeStructToSchema(attributes[i])]
                 IN <<[sp_entity_id |-> a.SPEntityID,
                       consumer_service_url |-> a.ConsumerServiceUrl,
                       name_id_format |-> a.NameIDFormat,
                       idp_entity_id |-> a.IDPEntityID,
                       public_key |-> a.PublicKey,
                       sso_endpoint |-> a.SSOEndpoint,
                       default_relay_state |-> a.DefaultRelayState,
                       name_id_transform_jsonata |-> a.NameIDTransformJsonata,
                       saml_attribute_transform_jsonata |-> a.SamlAttributeTransformJsonata]
                      @@ Key(Len(customAttributes) # 0, "custom_attribute", customAttributes)>>

\* the non-empty lists without repetition of members of T
ListsOf(T) ==
    {s \in UNION {[1..n -> T] : n \in 1..Cardinality(T)} :
        \A i, j \in 1..Len(s) : i # j => s[i] # s[j]}

\* the i-th custom claim of a fully populated struct
OidcClaim(i, required) ==
    [Name |-> Text("claim", i), Scope |-> Text("scope", 1), Required |-> Ptr(required),
     Source |-> [Name |-> Text("source", i), NameByIDP |-> ("idp" :> Text("idpclaim", i))]]

OidcClaimLists ==
    UNION {{[i \in 1..n |-> OidcClaim(i, r[i])] : r \in [1..n -> BOOLEAN]} : n \in 1..NumClaims}

\* the fully populated OIDC structs the service can return
OidcStructs ==
    {Ptr([ZeroSaasApplication EXCEPT
            !.AuthType = "oidc",
            !.ClientID = Text("client", 1),
            !.ClientSecret = secret,
            !.PublicKey = Text("key", 1),
            !.RedirectURIs = uris,
            !.GrantTypes = <<Text("grant", 1)>>,
            !.Scopes = scopes,
            !.GroupFilterRegex = Text("regex", 1),
            !.AccessTokenLifetime = Text("lifetime", 1),
            !.AppLauncherURL = Text("url", 1),
            !.AllowPKCEWithoutClientSecret = Ptr(pkce),
            !.RefreshTokenOptions = Ptr([Lifetime |-> Text("lifetime", 2)]),
            !.CustomClaims = Ptr(claims),
            !.HybridAndImplicitOptions =
                Ptr([ReturnAccessTokenFromAuthorizationEndpoint |-> Ptr(hybrid),
                     ReturnIDTokenFromAuthorizationEndpoint |-> Ptr(~hybrid)])]) :
        secret \in {EmptyString, Text("secret", 1)},
        uris \in ListsOf({Text("uri", i) : i \in 1..NumUris}),
        scopes \in {<<Text("scope", 1)>>, <<Text("scope", 2), Text("scope", 1)>>,
                    <<Text("scope", 1), Text("scope", 2)>>},
        pkce \in BOOLEAN, hybrid \in BOOLEAN, claims \in OidcClaimLists}

SamlStructs ==
    {Ptr([ZeroSaasApplication EXCEPT
            !.AuthType = "saml",
            !.SPEntityID = Text("entity", 1),
            !.ConsumerServiceUrl = Text("url", 2),
            !.NameIDFormat = Text("format", 1),
            !.IDPEntityID = Text("entity", 2),
            !.PublicKey = Text("key", 1),
            !.SSOEndpoint = Text("url", 3),
            !.CustomAttributes =
                Ptr(<<[Name |-> Text("attribute", 1), NameFormat |-> Text("format", 2),
                       Required |-> required, FriendlyName |-> EmptyString,
                       Source |-> [Name |-> Text("source", 1), NameByIDP |-> EmptyMap]]>>)]) :
        required \in BOOLEAN}

SaasStructs == {NilPtr} \cup OidcStructs \cup SamlStructs

\* what the ResourceData holds for saas_app before the tree is written: no
\* block, or a block with the client secret of an earlier create, if any
SaasStates ==
    {[saas_app |-> <<>>]}
    \cup {[saas_app |-> <<[ZeroSaasAttr EXCEPT !.client_secret = s]>>] :
             s \in {EmptyString, Text("secret", 1), Text("secret", 2)}}

\* a saas_app block in which the keys of both variants are set
FullSaasAttr(authType) ==
    [ZeroSaasAttr EXCEPT
       !.auth_type = authType,
       !.client_id = Text("client", 1),
       !.redirect_uris = {Text("uri", 1)},
       !.grant_types = {Text("grant", 1)},
       !.scopes = {Text("scope", 1)},
       !.app_launcher_url = Text("url", 1),
       !.group_filter_regex = Text("regex", 1),
       !.access_token_lifetime = Text("lifetime", 1),
       !.allow_pkce_without_client_secret = TRUE,
       !.refresh_token_options = <<[lifetime |-> Text("lifetime", 2)]>>,
       !.custom_claim = <<ClaimAttr([name |-> Text("claim", 1), required |-> TRUE])>>,
       !.hybrid_and_implicit_options =
           <<[return_access_token_from_authorization_endpoint |-> TRUE,
              return_id_token_from_authorization_endpoint |-> FALSE]>>,
       !.sp_entity_id = Text("entity", 1),
       !.consumer_service_url = Text("url", 2),
       !.name_id_format = Text("format", 1),
       !.default_relay_state = Text("relay", 1),
       !.name_id_transform_jsonata = Text("jsonata", 1),
       !.saml_attribute_transform_jsonata = Text("jsonata", 2),
       !.custom_attribute = <<ClaimAttr([name |-> Text("attribute", 1)])>>]

\* the values of auth_type: the two the schema admits, none, and another
AuthTypes == {"oidc", "saml", "", "ldap"}

\* the configurations given to convertSaasSchemaToStruct
SaasConfigs ==
    {[saas_app |-> <<>>]}
    \cup {[saas_app |-> <<FullSaasAttr(a)>>] : a \in AuthTypes}
    \cup {[saas_app |-> <<[ZeroSaasAttr EXCEPT !.auth_type = a]>>] : a \in AuthTypes}

(***************************************************************************)
(* endpoints: the structs given to flattenTeamsEndpoints.                  *)
(***************************************************************************)
NumNets == 2

\* the lists without repetition of members of T, the empty one included
NetworkLists(T) ==
    {<<>>} \cup {[i \in 1..Len(s) |-> [Network |-> s[i]]] : s \in ListsOf(T)}

EndpointStructs ==
    {NilPtr} \cup
    {Ptr([IPv4Endpoint |-> [Enabled |-> e4, AuthenticationEnabled |-> hint],
          IPv6Endpoint |-> [Enabled |-> e6, AuthenticationEnabledUIHelper |-> ~hint,
                            Networks |-> n],
          DotEndpoint |-> [RequireToken |-> token, Enabled |-> ~e6,
                           AuthenticationEnabledUIHelper |-> hint, Networks |-> n],
          DohEndpoint |-> [RequireToken |-> ~token, Enabled |-> ~e4,
                           AuthenticationEnabledUIHelper |-> hint, Networks |-> m]]) :
        e4 \in BOOLEAN, e6 \in BOOLEAN, token \in BOOLEAN, hint \in BOOLEAN,
        n \in NetworkLists({Text("net", i) : i \in 1..NumNets}),
        m \in {<<>>, <<[Network |-> Text("net", 2)], [Network |-> Text("net", 1)]>>}}

(***************************************************************************)
(* scim_config: cloudflare.AccessApplicationSCIMConfig and its tree.       *)
(***************************************************************************)
MaxAuth == 2
NumSecrets == 2

\* the placeholder the StateFunc of password, token and client_secret
\* returns for every value
CONCEALED_STRING == Text("concealed", 0)

StateFunc(val) == CONCEALED_STRING

\* the schemes the schema admits, and one it does not
KnownSchemes == {"httpbasic", "oauthbearertoken", "oauth2", "access_service_token"}
Schemes == KnownSchemes \cup {"digest"}

\* the keys each case of the switch on the scheme reads and writes
SchemeKeys(scheme) ==
    CASE scheme = "httpbasic" -> {"scheme", "user", "password"}
      [] scheme = "oauthbearertoken" -> {"scheme", "token"}
      [] scheme = "oauth2" -> {"scheme", "client_id", "client_secret",
                               "authorization_url", "token_url", "scopes"}
      [] scheme = "access_service_token" -> {"scheme", "client_id", "client_secret"}
      [] OTHER -> {"scheme"}

SecretKeys == {"password", "token", "client_secret"}

\* an authentication element of the configuration: the keys of its scheme
\* are set, and the keys of the other schemes too when full
AuthEntry(scheme, k, full) ==
    LET has(key) == full \/ key \in SchemeKeys(scheme)
        text(key, kind) == IF has(key) THEN Text(kind, k) ELSE EmptyString
    IN [scheme |-> scheme,
        user |-> text("user", "user"),
        password |-> text("password", "password"),
        token |-> text("token", "token"),
        client_id |-> text("client_id", "client"),
        client_secret |-> text("client_secret", "secret"),
        authorization_url |-> text("authorization_url", "auth_url"),
        token_url |-> text("token_url", "token_url"),
        scopes |-> IF ~has("scopes") THEN {}
                   ELSE IF k = 1 THEN {Text("scope", 1), Text("scope", 2)}
                   ELSE {Text("scope", k)}]

AuthEntries ==
    {AuthEntry(s, k, FALSE) : s \in Schemes, k \in 1..NumSecrets}
    \cup {AuthEntry(s, 1, TRUE) : s \in Schemes}

\* the configurations: no scim_config block, or one with an authentication
\* list
ScimBlock(auth) ==
    [enabled |-> TRUE, remote_uri |-> Text("uri", 1), idp_uid |-> Text("idp", 1),
     deactivate_on_delete |-> FALSE, authentication |-> auth, mappings |-> <<>>]

ScimConfigs ==
    {[scim_config |-> <<>>], [scim_config |-> <<ScimBlock(<<>>)>>]}
    \cup {[scim_config |-> <<ScimBlock(auth)>>] :
             auth \in UNION {[1..n -> AuthEntries] : n \in 1..MaxAuth}}

\* d.Get("scim_config.0.authentication"): the elements, none without a block
ScimAuthentication(d) ==
    IF Len(d.scim_config) > 0 THEN d.scim_config[1].authentication ELSE <<>>

\* one case of the switch: the variant struct of the element's scheme
ScimAuthVariant(e) ==
    CASE e.scheme = "httpbasic" ->
           [t |-> "HttpBasic", Scheme |-> e.scheme, User |-> e.user, Password |-> e.password]
      [] e.scheme = "oauthbearertoken" ->
           [t |-> "OauthBearerToken", Scheme |-> e.scheme, Token |-> e.token]
      [] e.scheme = "oauth2" ->
           [t |-> "Oauth2", Scheme |-> e.scheme, ClientID |-> e.client_id,
            ClientSecret |-> e.client_secret, AuthorizationURL |-> e.authorization_url,
            TokenURL |-> e.token_url, Scopes |-> StringList(e.scopes)]
      [] e.scheme = "access_service_token" ->
           [t |-> "ServiceToken", Scheme |-> e.scheme, ClientID |-> e.client_id,
            ClientSecret |-> e.client_secret]

\* AccessApplicationMultipleScimAuthentication
Multi(s) == [t |-> "Multi", v |-> s]

\* the loop runs over every element; an element of no known scheme appends
\* nothing
\* convertScimConfigAuthenticationSchemaToStruct, had its loop ended at the
\* first element of no known scheme
convertScimConfigAuthenticationSchemaToStruct_StopAtUnknown(d) ==
    LET auth == ScimAuthentication(d)
        unknown == {i \in 1..Len(auth) : auth[i].scheme \notin KnownSchemes}
        n == IF unknown = {} THEN Len(auth)
             ELSE (CHOOSE i \in unknown : \A j \in unknown : i <= j) - 1
    IN Ptr([Value |-> Multi([i \in 1..n |-> [Value |-> ScimAuthVariant(auth[i])]])])

convertScimConfigAuthenticationSchemaToStruct(d) ==
    LET known == SelectSeq(ScimAuthentication(d), LAMBDA e : e.scheme \in KnownSchemes)
    IN Ptr([Value |-> Multi([i \in 1..Len(known) |-> [Value |-> ScimAuthVariant(known[i])]])])

\* the map one case of the type switch fills
ScimVariantSchema(v) ==
    CASE v.t = "HttpBasic" ->
           [scheme |-> v.Scheme, user |-> v.User, password |-> v.Password]
      [] v.t = "OauthBearerToken" ->
           [scheme |-> v.Scheme, token |-> v.Token]
      [] v.t = "Oauth2" ->
           [scheme |-> v.Scheme, client_id |-> v.ClientID, client_secret |-> v.ClientSecret,
            authorization_url |-> v.AuthorizationURL, token_url |-> v.TokenURL,
            scopes |-> v.Scopes]
      [] v.t = "ServiceToken" ->
           [scheme |-> v.Scheme, client_id |-> v.ClientID, client_secret |-> v.ClientSecret]
      [] OTHER -> EmptyMap

\* convertScimConfigSingleAuthentiationToSchema, had its oauth2 case left
\* the client secret out
convertScimConfigSingleAuthentiationToSchema_NoSecret(scimAuth) ==
    IF scimAuth.v.Value.t = "Oauth2"
    THEN [k \in DOMAIN ScimVariantSchema(scimAuth.v.Value) \ {"client_secret"} |->
             ScimVariantSchema(scimAuth.v.Value)[k]]
    ELSE ScimVariantSchema(scimAuth.v.Value)

convertScimConfigSingleAuthentiationToSchema(scimAuth) ==
    ScimVariantSchema(scimAuth.v.Value)

convertScimConfigAuthenticationStructToSchema(scimAuth) ==
    IF scimAuth = NilPtr THEN <<>>
    ELSE IF scimAuth.v.Value = Nil THEN <<>>
    ELSE LET t == scimAuth.v.Value
         IN IF t.t = "Multi"
            THEN [i \in 1..Len(t.v) |->
                     convertScimConfigSingleAuthentiationToSchema(Ptr([Value |-> t.v[i].Value]))]
            ELSE <<ScimVariantSchema(t)>>

\* cloudflare.Bool(p): the value p points to, false for nil
Bool(p) == Deref(p, FALSE)

convertScimConfigMappingsStructsToSchema(mappingsData) ==
    [i \in 1..Len(mappingsData) |->
        LET mapping == mappingsData[i].v
        IN [schema |-> mapping.Schema,
            enabled |-> mapping.Enabled,
            filter |-> mapping.Filter,
            transform_jsonata |-> mapping.TransformJsonata,
            strictness |-> mapping.Strictness]
           @@ Key(mapping.Operations # NilPtr, "operations",
                  <<[create |-> Bool(mapping.Operations.v.Create),
                     update |-> Bool(mapping.Operations.v.Update),
                     delete |-> Bool(mapping.Operations.v.Delete)]>>)]

convertScimConfigStructToSchema(scimConfig) ==
    IF scimConfig = NilPtr THEN <<>>
    ELSE LET auth == convertScimConfigAuthenticationStructToSchema(scimConfig.v.Authentication)
         IN <<[enabled |-> scimConfig.v.Enabled,
               remote_uri |-> scimConfig.v.RemoteURI,
               idp_uid |-> scimConfig.v.IdPUID,
               deactivate_on_delete |-> Bool(scimConfig.v.DeactivateOnDelete),
               authentication |-> auth,
               mappings |-> convertScimConfigMappingsStructsToSchema(scimConfig.v.Mappings)]>>

\* the state the framework derives from a configuration: the value of a key
\* that is set and has a StateFunc is what the StateFunc returns for it
StateOfAuthentication(d) ==
    LET auth == ScimAuthentication(d)
    IN [i \in 1..Len(auth) |->
           [k \in DOMAIN auth[i] |->
               IF k \in SecretKeys /\ auth[i][k] # EmptyString
               THEN StateFunc(auth[i][k]) ELSE auth[i][k]]]

\* the SCIM configurations the service can return: none, one without
\* authentication, one with a single authentication and one with several
ScimMapping ==
    Ptr([Schema |-> Text("urn", 1), Enabled |-> Ptr(TRUE), Filter |-> EmptyString,
         TransformJsonata |-> EmptyString, Strictness |-> Text("strict", 1),
         Operations |-> Ptr([Create |-> Ptr(TRUE), Update |-> NilPtr, Delete |-> Ptr(FALSE)])])

ScimStruct(auth) ==
    Ptr([Enabled |-> Ptr(TRUE), RemoteURI |-> Text("uri", 1), IdPUID |-> Text("idp", 1),
         DeactivateOnDelete |-> NilPtr, Authentication |-> auth,
         Mappings |-> <<ScimMapping>>])

\* the secrets the service can return: the placeholder or a real value
ServiceSecrets == {CONCEALED_STRING} \cup {Text("secret", k) : k \in 1..NumSecrets}

ScimStructs ==
    {NilPtr, ScimStruct(NilPtr), ScimStruct(Ptr([Value |-> Nil]))}
    \cup {ScimStruct(Ptr([Value |-> [ScimAuthVariant(AuthEntry(s, 1, FALSE)) EXCEPT ![key] = x]])) :
             s \in {"httpbasic"}, key \in {"Password"}, x \in ServiceSecrets}
    \cup {ScimStruct(Ptr([Value |->
              Multi(<<[Value |-> [ScimAuthVariant(AuthEntry("oauthbearertoken", 1, FALSE))
                                      EXCEPT !.Token = x]],
                      [Value |-> [ScimAuthVariant(AuthEntry("oauth2", 1, FALSE))
                                      EXCEPT !.ClientSecret = y]]>>)])) :
             x \in ServiceSecrets, y \in ServiceSecrets}

(***************************************************************************)
(* landing_page_design and footer_links.                                   *)
(***************************************************************************)
LandingPageDesign(k) ==
    [ButtonColor |-> Text("color", k), ButtonTextColor |-> Text("color", k + 1),
     Title |-> Text("title", k), Message |-> Text("message", k),
     ImageURL |-> Text("url", k)]

LandingPageBlock(k) ==
    [button_color |-> Text("color", k), button_text_color |-> Text("color", k + 1),
     title |-> Text("title", k), message |-> Text("message", k),
     image_url |-> Text("url", k)]

convertLandingPageDesignStructToSchema(d, design) ==
    IF ~GetOkList(d.landing_page_design) THEN <<>>
    ELSE IF design = NilPtr THEN <<>>
    ELSE <<[button_color |-> design.v.ButtonColor,
            button_text_color |-> design.v.ButtonTextColor,
            title |-> design.v.Title,
            message |-> design.v.Message,
            image_url |-> design.v.ImageURL]>>

FooterLink(k) == [Name |-> Text("name", k), URL |-> Text("url", k)]

\* footerLinks is a slice: NilPtr is the nil slice, Ptr(s) one that holds s
convertFooterLinksStructToSchema(d, footerLinks) ==
    IF ~GetOkSet(d.footer_links) THEN <<>>
    ELSE IF footerLinks = NilPtr THEN <<>>
    ELSE [i \in 1..Len(footerLinks.v) |->
             [name |-> footerLinks.v[i].Name, url |-> footerLinks.v[i].URL]]

(***************************************************************************)
(* destinations and target_criteria of the access application.             *)
(***************************************************************************)
MaxDestinations == 2
MaxCriteria == 2
NumAttributes == 2

\* convertDestinationsToStruct, had it left the type of a destination unset
\* when it is neither "public" nor "private"
convertDestinationsToStruct_SkipUnknown(destinationPayloads) ==
    Returned([i \in 1..Len(destinationPayloads) |->
                [Type |-> IF destinationPayloads[i].type \in {"public", "private"}
                          THEN destinationPayloads[i].type ELSE "",
                 URI |-> destinationPayloads[i].uri]])

\* the switch returns from inside the loop: one type that is neither
\* "public" nor "private" gives a nil slice and an error
convertDestinationsToStruct(destinationPayloads) ==
    IF \E i \in 1..Len(destinationPayloads) :
           destinationPayloads[i].type \notin {"public", "private"}
    THEN Rejected("failed to parse destination type: value must be one of public or private")
    ELSE Returned([i \in 1..Len(destinationPayloads) |->
                     [Type |-> destinationPayloads[i].type,
                      URI |-> destinationPayloads[i].uri]])

\* targetContext := cloudflare.AccessInfrastructureTargetContext{}
ZeroTargetContext == [Port |-> 0, Protocol |-> "", TargetAttributes |-> EmptyMap]

\* the map made for one target_attributes item: its name with its values,
\* no key at all when it has no value
ItemAttributes(sshMap) ==
    IF Len(sshMap.values) = 0 THEN EmptyMap ELSE sshMap.name :> sshMap.values

\* the loop over the entries of target_criteria: targetContext is declared
\* before the loop and lives on from one entry to the next; str_return is
\* replaced by the map of each item in turn, so the map of the last item is
\* what is assigned
RECURSIVE TargetContextsFrom(_, _, _)
TargetContextsFrom(targetCriteria, targetContext, TargetContexts) ==
    IF targetCriteria = <<>> THEN Returned(TargetContexts)
    ELSE LET itemMap == Head(targetCriteria)
             sshVal == itemMap.target_attributes
         IN IF itemMap.protocol \notin {"SSH", "RDP"}
            THEN [status |-> "error",
                  err |-> "failed to parse protocol: value must be one of SSH or RDP",
                  v |-> Ptr(<<>>)]
            ELSE LET next == [Port |-> itemMap.port,
                              Protocol |-> itemMap.protocol,
                              TargetAttributes |->
                                  IF Len(sshVal) > 0
                                  THEN ItemAttributes(sshVal[Len(sshVal)])
                                  ELSE targetContext.TargetAttributes]
                 IN TargetContextsFrom(Tail(targetCriteria), next,
                                       Append(TargetContexts, next))

convertTargetContextsToStruct(d) ==
    IF GetOkList(d.target_criteria)
    THEN TargetContextsFrom(d.target_criteria, ZeroTargetContext, <<>>)
    ELSE Returned(<<>>)

\* the orders in which a range over a map with the keys K can visit them
Orderings(K) == {s \in [1..Cardinality(K) -> K] : Range(s) = K}

\* the trees convertTargetContextsToSchema can return: one for each order
\* in which the range over each TargetAttributes map visits its keys
convertTargetContextsToSchema(targetContexts) ==
    IF targetContexts = NilPtr THEN {<<>>}
    ELSE LET contexts == targetContexts.v
             orders == {o \in [1..Len(contexts) ->
                                 UNION {Orderings(DOMAIN contexts[i].TargetAttributes) :
                                          i \in 1..Len(contexts)}] :
                          \A i \in 1..Len(contexts) :
                              o[i] \in Orderings(DOMAIN contexts[i].TargetAttributes)}
         IN {[i \in 1..Len(contexts) |->
                 [port |-> contexts[i].Port,
                  protocol |-> contexts[i].Protocol,
                  target_attributes |->
                      [j \in 1..Len(o[i]) |->
                          [name |-> o[i][j],
                           values |-> contexts[i].TargetAttributes[o[i][j]]]]]] :
               o \in orders}

\* the destinations of a configuration: the types the schema admits, the
\* empty string and another one
DestinationTypes == {"public", "private", "", "internal"}

DestinationLists ==
    UNION {{[i \in 1..n |-> [type |-> ty[i], uri |-> Text("uri", i)]] :
               ty \in [1..n -> DestinationTypes]} : n \in 0..MaxDestinations}

\* a target_attributes item: attribute k has k values
TargetAttribute(k) ==
    [name |-> Text("attribute", k), values |-> [i \in 1..k |-> Text("value", i)]]

\* the target_attributes lists: no item, one item, and two different items
\* in either order
AttributeLists ==
    {<<>>}
    \cup {<<TargetAttribute(k)>> : k \in 1..NumAttributes}
    \cup {<<TargetAttribute(k), TargetAttribute((k % NumAttributes) + 1)>> :
             k \in 1..NumAttributes}

PortOf(protocol) ==
    CASE protocol = "SSH" -> 22 [] protocol = "RDP" -> 3389 [] OTHER -> 5900

\* the entries of target_criteria: the protocols SSH and RDP and another one
TargetCriteria ==
    {[port |-> PortOf(p), protocol |-> p, target_attributes |-> a] :
        p \in {"SSH", "RDP", "VNC"}, a \in AttributeLists}

TargetConfigs ==
    {[target_criteria |-> c] :
        c \in UNION {[1..n -> TargetCriteria] : n \in 0..MaxCriteria}}

(***************************************************************************)
(* The DiffSuppressFunc of domain, domain_type, session_duration and       *)
(* app_launcher_visible.  d holds the type of the application.             *)
(***************************************************************************)
DomainDiffSuppressFunc(k, oldValue, newValue, d) ==
    IF d.type = "infrastructure" THEN TRUE ELSE oldValue = newValue

DomainTypeDiffSuppressFunc(k, oldValue, newValue, d) ==
    IF d.type = "infrastructure" THEN TRUE ELSE oldValue = newValue

\* the function of session_duration, without the test for "bookmark"
SessionDurationDiffSuppressFunc_NoBookmark(k, oldValue, newValue, d) ==
    IF d.type = "infrastructure" THEN TRUE ELSE oldValue = newValue

SessionDurationDiffSuppressFunc(k, oldValue, newValue, d) ==
    IF d.type = "bookmark" \/ d.type = "infrastructure" THEN TRUE
    ELSE oldValue = newValue

AppLauncherVisibleDiffSuppressFunc(k, oldValue, newValue, d) ==
    IF d.type = "infrastructure" THEN TRUE ELSE oldValue = newValue

\* the application types the schema admits
ApplicationTypes ==
    {"app_launcher", "bookmark", "biso", "dash_sso", "saas", "self_hosted", "ssh",
     "vnc", "warp", "infrastructure"}

\* old and new values of an attribute as the framework hands them over
SuppressValues == {"", "one", "other"}

(***************************************************************************)
(* The specification of the converters: an input is drawn, the converters  *)
(* that take it are applied to it.                                         *)
(***************************************************************************)
\* an input of family fam, no converter applied yet
Input(fam, in) == [fam |-> fam, in |-> in, step |-> "input", out |-> Nil, back |-> Nil]

CorsInputs ==
    {Input("cors", [d |-> c, headers |-> h]) : c \in CorsConfigs, h \in CorsStructs}

SaasInputs ==
    {Input("saas", [d |-> s, app |-> a]) : s \in SaasStates, a \in SaasStructs}

EndpointInputs == {Input("endpoints", e) : e \in EndpointStructs}

ScimInputs == {Input("scim", d) : d \in ScimConfigs}

\* what the service returned, with and without a scim_config block in the
\* configuration
ScimReadInputs ==
    {Input("scim_read", [d |-> d, scimConfig |-> s]) :
        d \in {[scim_config |-> <<>>], [scim_config |-> <<ScimBlock(<<>>)>>]},
        s \in ScimStructs}

LandingInputs ==
    {Input("landing", [d |-> [landing_page_design |-> b], design |-> s]) :
        b \in {<<>>, <<LandingPageBlock(1)>>},
        s \in {NilPtr, Ptr(LandingPageDesign(1)), Ptr(LandingPageDesign(2))}}

FooterInputs ==
    {Input("footer", [d |-> [footer_links |-> b], footerLinks |-> s]) :
        b \in {{}, {[name |-> Text("name", 1), url |-> Text("url", 1)]}},
        s \in {NilPtr, Ptr(<<>>), Ptr(<<FooterLink(1)>>),
               Ptr(<<FooterLink(2), FooterLink(1)>>)}}

\* the element of an endpoint-kind list as the schema builds it
KindFields(kind, enabled) ==
    IF kind = "ipv4"
    THEN [enabled |-> B(enabled), authentication_enabled |-> B(TRUE)]
    ELSE IF kind = "ipv6"
    THEN [enabled |-> B(enabled), authentication_enabled |-> B(FALSE),
          networks |-> L(<<>>)]
    ELSE [enabled |-> B(enabled), require_token |-> B(~enabled),
          authentication_enabled |-> B(TRUE),
          networks |-> L(<<M([network |-> S(Text("net", 1))])>>)]

\* the values an endpoints entry can hold for a kind: a one-element list, a
\* list with a second element, an empty list, nil (the key is missing), a
\* list of something that is not a map, a map without the boolean fields,
\* and a slice that is not a []interface{}
KindShapes(kind) ==
    { L(<<M(KindFields(kind, TRUE))>>),
      L(<<M(KindFields(kind, FALSE)), B(TRUE)>>),
      L(<<>>),
      Nil,
      L(<<B(TRUE)>>),
      L(<<M([networks |-> L(<<>>)])>>),
      ML(<<M(KindFields(kind, TRUE))>>) }

\* the values given to inflateTeamsLocationEndpoint
EndpointTrees ==
    {Nil, L(<<>>), SetV({}), L(<<B(TRUE)>>)}
    \cup {L(<<M([ipv4 |-> a, ipv6 |-> b, dot |-> c, doh |-> e])>>) :
              a \in KindShapes("ipv4"), b \in KindShapes("ipv6"),
              c \in KindShapes("dot"), e \in KindShapes("doh")}

SaasConfigInputs == {Input("saas_config", d) : d \in SaasConfigs}

DestinationInputs == {Input("destinations", l) : l \in DestinationLists}

TargetInputs == {Input("targets", d) : d \in TargetConfigs}

SuppressInputs ==
    {Input("suppress", [d |-> [type |-> ty], oldValue |-> o, newValue |-> n]) :
        ty \in ApplicationTypes, o \in SuppressValues, n \in SuppressValues}

InflateInputs == {Input("inflate", e) : e \in EndpointTrees}

ConvInputs ==
    CorsInputs \cup SaasInputs \cup EndpointInputs \cup ScimInputs \cup ScimReadInputs
        \cup LandingInputs \cup FooterInputs \cup InflateInputs
        \cup SaasConfigInputs \cup DestinationInputs \cup TargetInputs \cup SuppressInputs

\* the converter named fn has been applied to conv.in and returned o
Applied(fam, fn, o) ==
    /\ conv.fam = fam
    /\ conv.step = "input"
    /\ conv' = [conv EXCEPT !.step = fn, !.out = o]
    /\ UNCHANGED <<id, account, attrs, op, result, log>>

\* the converter named fn has been applied to what prev returned
AppliedBack(fam, prev, fn, o) ==
    /\ conv.fam = fam
    /\ conv.step = prev
    /\ conv' = [conv EXCEPT !.step = fn, !.back = o]
    /\ UNCHANGED <<id, account, attrs, op, result, log>>

InitConv ==
    /\ id = EmptyString
    /\ account = EmptyString
    /\ attrs = ZeroAttrs
    /\ op = "New"
    /\ result = [status |-> "ok", err |-> "", res |-> 0]
    /\ log = <<>>
    /\ conv \in ConvInputs

CORSSchemaToStruct ==
    Applied("cors", "convertCORSSchemaToStruct", convertCORSSchemaToStruct(conv.in.d))

CORSStructToSchema ==
    Applied("cors", "convertCORSStructToSchema",
            convertCORSStructToSchema(conv.in.d, conv.in.headers))

SaasStructToSchema ==
    Applied("saas", "convertSaasStructToSchema",
            convertSaasStructToSchema(conv.in.d, conv.in.app))

\* the tree is written to the ResourceData and converted back
SaasSchemaToStruct ==
    AppliedBack("saas", "convertSaasStructToSchema", "convertSaasSchemaToStruct",
                convertSaasSchemaToStruct(SetSaasApp(conv.out)))

EndpointsFlatten ==
    Applied("endpoints", "flattenTeamsEndpoints", flattenTeamsEndpoints(conv.in))

\* Read writes the tree to the ResourceData, Create inflates what it reads
\* from there
EndpointsInflate ==
    /\ conv.fam = "endpoints" /\ conv.step = "flattenTeamsEndpoints"
    /\ conv.out.status = "ok"
    /\ AppliedBack("endpoints", "flattenTeamsEndpoints", "inflateTeamsLocationEndpoint",
                   inflateTeamsLocationEndpoint(SetEndpoints(conv.out.v)))

\* the value flattenTeamsEndpoints returned, given to the inflation as it is
EndpointsInflateReturned ==
    /\ conv.fam = "endpoints" /\ conv.step = "flattenTeamsEndpoints"
    /\ conv.out.status = "ok"
    /\ AppliedBack("endpoints", "flattenTeamsEndpoints", "inflateTeamsLocationEndpoint, unstored",
                   inflateTeamsLocationEndpoint(conv.out.v))

ScimAuthenticationSchemaToStruct ==
    Applied("scim", "convertScimConfigAuthenticationSchemaToStruct",
            convertScimConfigAuthenticationSchemaToStruct(conv.in))

ScimAuthenticationStructToSchema ==
    AppliedBack("scim", "convertScimConfigAuthenticationSchemaToStruct",
                "convertScimConfigAuthenticationStructToSchema",
                convertScimConfigAuthenticationStructToSchema(conv.out))

\* the framework stores the planned configuration in the state
ScimStateOfConfiguration ==
    Applied("scim", "StateFunc", StateOfAuthentication(conv.in))

\* Read stores what the service returned in the state
ScimStructToSchema ==
    Applied("scim_read", "convertScimConfigStructToSchema",
            convertScimConfigStructToSchema(conv.in.scimConfig))

LandingPageDesignStructToSchema ==
    Applied("landing", "convertLandingPageDesignStructToSchema",
            convertLandingPageDesignStructToSchema(conv.in.d, conv.in.design))

FooterLinksStructToSchema ==
    Applied("footer", "convertFooterLinksStructToSchema",
            convertFooterLinksStructToSchema(conv.in.d, conv.in.footerLinks))

InflateEndpoint ==
    Applied("inflate", "inflateTeamsLocationEndpoint", inflateTeamsLocationEndpoint(conv.in))

\* Create and Update convert the planned configuration
SaasConfigToStruct ==
    Applied("saas_config", "convertSaasSchemaToStruct", convertSaasSchemaToStruct(conv.in))

DestinationsToStruct ==
    Applied("destinations", "convertDestinationsToStruct",
            convertDestinationsToStruct(conv.in))

TargetContextsToStruct ==
    Applied("targets", "convertTargetContextsToStruct",
            convertTargetContextsToStruct(conv.in))

\* Read converts what the service stored back to the tree
TargetContextsToSchema ==
    /\ conv.fam = "targets" /\ conv.step = "convertTargetContextsToStruct"
    /\ conv.out.status = "ok"
    /\ \E tree \in convertTargetContextsToSchema(conv.out.v) :
          AppliedBack("targets", "convertTargetContextsToStruct",
                      "convertTargetContextsToSchema", tree)

SuppressDomain ==
    Applied("suppress", "domain",
            DomainDiffSuppressFunc("domain", conv.in.oldValue, conv.in.newValue, conv.in.d))

SuppressDomainType ==
    Applied("suppress", "domain_type",
            DomainTypeDiffSuppressFunc("domain_type", conv.in.oldValue, conv.in.newValue,
                                       conv.in.d))

SuppressSessionDuration ==
    Applied("suppress", "session_duration",
            SessionDurationDiffSuppressFunc("session_duration", conv.in.oldValue,
                                            conv.in.newValue, conv.in.d))

SuppressAppLauncherVisible ==
    Applied("suppress", "app_launcher_visible",
            AppLauncherVisibleDiffSuppressFunc("app_launcher_visible", conv.in.oldValue,
                                               conv.in.newValue, conv.in.d))

NextConv ==
    \/ LandingPageDesignStructToSchema \/ FooterLinksStructToSchema
    \/ InflateEndpoint \/ SaasConfigToStruct
    \/ DestinationsToStruct \/ TargetContextsToStruct \/ TargetContextsToSchema
    \/ SuppressDomain \/ SuppressDomainType \/ SuppressSessionDuration
    \/ SuppressAppLauncherVisible
    \/ CORSSchemaToStruct \/ CORSStructToSchema
    \/ SaasStructToSchema \/ SaasSchemaToStruct
    \/ EndpointsFlatten \/ EndpointsInflate \/ EndpointsInflateReturned
    \/ ScimAuthenticationSchemaToStruct \/ ScimAuthenticationStructToSchema
    \/ ScimStateOfConfiguration \/ ScimStructToSchema

SpecConv == InitConv /\ [][NextConv]_vars

(***************************************************************************)
(* Claims about the converters.                                            *)
(***************************************************************************)
\* convertCORSSchemaToStruct has returned for a configuration with a block
CorsConverted ==
    /\ conv.fam = "cors"
    /\ conv.step = "convertCORSSchemaToStruct"
    /\ conv.in.d.cors_headers # <<>>

CorsBlock == conv.in.d.cors_headers[1]

CredentialsWithAllOrigins(b) ==
    b.allow_credentials /\ (b.allow_all_origins \/ Wildcard \in b.allowed_origins)

CredentialsWithExplicitOrigins(b) ==
    /\ b.allow_credentials
    /\ ~b.allow_all_origins
    /\ b.allowed_origins # {}
    /\ Wildcard \notin b.allowed_origins

MethodsForgotten(b) ==
    /\ b.allow_all_origins \/ Cardinality(b.allowed_origins) > 1
    /\ ~b.allow_all_methods /\ b.allowed_methods = {}

OriginsForgotten(b) ==
    /\ b.allow_all_methods \/ Cardinality(b.allowed_methods) > 1
    /\ ~b.allow_all_origins /\ b.allowed_origins = {}

\* C12 as stated: credentials with all origins or "*" are rejected with no
\* struct, and credentials with explicit, non-wildcard origins and
\* allow_all_origins = false always succeed.
C12_ExplicitOriginsAlwaysSucceed ==
    CorsConverted =>
        /\ CredentialsWithAllOrigins(CorsBlock) =>
               conv.out.status = "error" /\ conv.out.v = NilPtr
        /\ CredentialsWithExplicitOrigins(CorsBlock) =>
               conv.out.status = "ok" /\ conv.out.v # NilPtr

\* C12: credentials with allow_all_origins or with a "*" origin are rejected
\* and no struct is returned; credentials with explicit, non-wildcard origins
\* and allow_all_origins = false succeed unless the block names more than one
\* origin and neither allow_all_methods nor any allowed method.
C12_CredentialsNeedExplicitOrigins ==
    CorsConverted =>
        /\ CredentialsWithAllOrigins(CorsBlock) =>
               conv.out.status = "error" /\ conv.out.v = NilPtr
        /\ CredentialsWithExplicitOrigins(CorsBlock) /\ ~MethodsForgotten(CorsBlock) =>
               conv.out.status = "ok" /\ conv.out.v # NilPtr
        /\ CredentialsWithExplicitOrigins(CorsBlock) /\ MethodsForgotten(CorsBlock) =>
               conv.out.status = "error" /\ conv.out.err = MethodsMessage

C12_Witness ==
    /\ CorsConverted
    /\ CredentialsWithExplicitOrigins(CorsBlock)
    /\ Cardinality(CorsBlock.allowed_origins) > 1
    /\ CorsBlock.allowed_methods # {}
    /\ conv.out.status = "ok"
    /\ conv.out.v.v.AllowCredentials

\* C13: a block with more than one allowed origin (or allow_all_origins) and
\* neither allow_all_methods nor an allowed method is rejected, and so is a
\* block with more than one allowed method (or allow_all_methods) and neither
\* allow_all_origins nor an allowed origin; a returned struct satisfies both
\* conditions; a configuration without a cors_headers block is not rejected.
C13_OriginsAndMethodsGoTogether ==
    /\ CorsConverted =>
        /\ MethodsForgotten(CorsBlock) => conv.out.status = "error" /\ conv.out.v = NilPtr
        /\ OriginsForgotten(CorsBlock) => conv.out.status = "error" /\ conv.out.v = NilPtr
    /\ conv.fam = "cors" /\ conv.step = "convertCORSSchemaToStruct" /\ conv.out.status = "ok" =>
        LET c == conv.out.v.v
        IN /\ (c.AllowAllOrigins \/ Len(c.AllowedOrigins) > 1) =>
                  (c.AllowAllMethods \/ Len(c.AllowedMethods) > 0)
           /\ (c.AllowAllMethods \/ Len(c.AllowedMethods) > 1) =>
                  (c.AllowAllOrigins \/ Len(c.AllowedOrigins) > 0)
    /\ conv.fam = "cors" /\ conv.step = "convertCORSSchemaToStruct"
           /\ conv.in.d.cors_headers = <<>> =>
        conv.out.status = "ok"

C13_Witness ==
    /\ CorsConverted
    /\ CorsBlock.allow_all_origins
    /\ CorsBlock.allowed_origins = {}
    /\ ~CorsBlock.allow_credentials
    /\ MethodsForgotten(CorsBlock)
    /\ conv.out.err = MethodsMessage

\* a fully populated OIDC struct went to the attribute tree and back
OidcRoundTrip ==
    /\ conv.fam = "saas"
    /\ conv.step = "convertSaasSchemaToStruct"
    /\ conv.in.app \in OidcStructs

SameScalarOidcFields(a, b) ==
    /\ b.AuthType = a.AuthType
    /\ b.ClientID = a.ClientID
    /\ b.GroupFilterRegex = a.GroupFilterRegex
    /\ b.AccessTokenLifetime = a.AccessTokenLifetime
    /\ b.AppLauncherURL = a.AppLauncherURL
    /\ b.AllowPKCEWithoutClientSecret = a.AllowPKCEWithoutClientSecret
    /\ b.RefreshTokenOptions = a.RefreshTokenOptions
    /\ b.CustomClaims = a.CustomClaims
    /\ b.HybridAndImplicitOptions = a.HybridAndImplicitOptions

SameMembers(s, u) == Range(s) = Range(u) /\ Len(s) = Len(u)

\* the tree holds the client secret of the prior state, or none
ClientSecretIsThatOfState ==
    LET m == conv.out[1]
        held == SaasApp0(conv.in.d).client_secret
    IN IF held # EmptyString
       THEN "client_secret" \in DOMAIN m /\ m["client_secret"] = held
       ELSE "client_secret" \notin DOMAIN m

\* C14 as stated: the round trip reproduces every listed field, the lists of
\* redirect URIs, grant types and scopes included, and the client secret of
\* the tree is that of the prior state.
C14_RoundTripReproducesLists ==
    OidcRoundTrip =>
        LET a == conv.in.app.v
            b == conv.back.v
        IN /\ SameScalarOidcFields(a, b)
           /\ b.RedirectURIs = a.RedirectURIs
           /\ b.GrantTypes = a.GrantTypes
           /\ b.Scopes = a.Scopes
           /\ ClientSecretIsThatOfState

\* C14: convertSaasStructToSchema followed by the conversion back reproduces
\* client id, group filter regex, access token lifetime, app launcher URL,
\* PKCE flag, refresh-token lifetime, custom claims and hybrid and implicit
\* flags of a fully populated OIDC struct, and the members of its redirect
\* URIs, grant types and scopes, not their order; the struct that comes back
\* has no client secret, and the client secret of the tree is the one the
\* prior state holds, absent when it holds none, whatever the struct carries.
C14_OidcRoundTrip ==
    OidcRoundTrip =>
        LET a == conv.in.app.v
            b == conv.back.v
        IN /\ SameScalarOidcFields(a, b)
           /\ SameMembers(b.RedirectURIs, a.RedirectURIs)
           /\ SameMembers(b.GrantTypes, a.GrantTypes)
           /\ SameMembers(b.Scopes, a.Scopes)
           /\ b.ClientSecret = EmptyString
           /\ ClientSecretIsThatOfState

C14_Witness ==
    /\ OidcRoundTrip
    /\ conv.in.app.v.ClientSecret = Text("secret", 1)
    /\ SaasApp0(conv.in.d).client_secret = Text("secret", 2)
    /\ conv.out[1]["client_secret"] = Text("secret", 2)
    /\ Len(conv.in.app.v.CustomClaims.v) = 2
    /\ Len(conv.in.app.v.RedirectURIs) = 2
    /\ conv.back.v.RedirectURIs # conv.in.app.v.RedirectURIs
    /\ conv.back.v.CustomClaims = conv.in.app.v.CustomClaims

\* the struct the inflation of e's tree is to give: e's flags and networks
\* and no authentication hint
WithoutHints(e) ==
    [IPv4Endpoint |-> [Enabled |-> e.IPv4Endpoint.Enabled, AuthenticationEnabled |-> FALSE],
     IPv6Endpoint |-> [e.IPv6Endpoint EXCEPT !.AuthenticationEnabledUIHelper = FALSE],
     DotEndpoint |-> [e.DotEndpoint EXCEPT !.AuthenticationEnabledUIHelper = FALSE],
     DohEndpoint |-> [e.DohEndpoint EXCEPT !.AuthenticationEnabledUIHelper = FALSE]]

EndpointsInflated ==
    /\ conv.fam = "endpoints"
    /\ conv.step \in {"inflateTeamsLocationEndpoint", "inflateTeamsLocationEndpoint, unstored"}

\* C15 as stated: inflateTeamsLocationEndpoint applied after
\* flattenTeamsEndpoints gives back the enabled flags, the require_token
\* flags and the network lists, without the authentication hints.
C15_InflateAfterFlattenPreserves ==
    EndpointsInflated =>
        /\ conv.back.status = "ok"
        /\ conv.back.v = Ptr(WithoutHints(conv.in.v))

\* C15: when the tree flattenTeamsEndpoints returns is written to the
\* ResourceData and read back, inflateTeamsLocationEndpoint gives a struct
\* with the same enabled flags, require_token flags (DoT, DoH) and network
\* lists in order, whose authentication hints are unset whatever the tree
\* holds; applied to the returned tree itself it returns an error, the
\* values of the four kinds being []map[string]interface{}.
C15_EndpointsRoundTrip ==
    /\ conv.fam = "endpoints" /\ conv.step = "inflateTeamsLocationEndpoint" =>
          /\ conv.back.status = "ok"
          /\ conv.back.v = Ptr(WithoutHints(conv.in.v))
    /\ conv.fam = "endpoints" /\ conv.step = "inflateTeamsLocationEndpoint, unstored" =>
          conv.back.status = "error"

C15_Witness ==
    /\ conv.fam = "endpoints" /\ conv.step = "inflateTeamsLocationEndpoint"
    /\ conv.in.v.DotEndpoint.AuthenticationEnabledUIHelper
    /\ ~conv.in.v.DotEndpoint.RequireToken
    /\ Len(conv.in.v.IPv6Endpoint.Networks) = 2
    /\ conv.in.v.IPv6Endpoint.Networks[1].Network = Text("net", 2)
    /\ conv.back.status = "ok"
    /\ conv.back.v.v.IPv6Endpoint.Networks = conv.in.v.IPv6Endpoint.Networks
    /\ ~conv.back.v.v.DotEndpoint.AuthenticationEnabledUIHelper

\* the authentication list of a configuration went to a struct and back
ScimRoundTrip ==
    /\ conv.fam = "scim"
    /\ conv.step = "convertScimConfigAuthenticationStructToSchema"

KnownEntries == SelectSeq(ScimAuthentication(conv.in), LAMBDA e : e.scheme \in KnownSchemes)

\* the map m holds the keys of e's scheme, with e's values, and no other key
HoldsSchemeOf(m, e) ==
    /\ DOMAIN m = SchemeKeys(e.scheme)
    /\ \A k \in DOMAIN m \ {"scopes"} : m[k] = e[k]
    /\ "scopes" \in DOMAIN m =>
           Range(m["scopes"]) = e.scopes /\ Len(m["scopes"]) = Cardinality(e.scopes)

\* C16: an authentication entry of each of the four schemes, converted to a
\* struct and back, comes back with the keys of its scheme, each with the
\* value it had (scopes as a set), and with no key of another scheme: an
\* oauth2 entry keeps client id, client secret, authorization URL, token URL
\* and scopes and has no user, password or token.
C16_ScimAuthenticationRoundTrip ==
    ScimRoundTrip =>
        /\ Len(conv.back) = Len(KnownEntries)
        /\ \A i \in 1..Len(KnownEntries) :
              /\ HoldsSchemeOf(conv.back[i], KnownEntries[i])
              /\ KnownEntries[i].scheme = "oauth2" =>
                    DOMAIN conv.back[i] \cap {"user", "password", "token"} = {}

C16_Witness ==
    /\ ScimRoundTrip
    /\ Len(ScimAuthentication(conv.in)) = 2
    /\ ScimAuthentication(conv.in)[1] = AuthEntry("oauth2", 1, TRUE)
    /\ ScimAuthentication(conv.in)[2].scheme = "httpbasic"
    /\ Len(conv.back) = 2
    /\ conv.back[1]["client_secret"] = Text("secret", 1)
    /\ "user" \notin DOMAIN conv.back[1]
    /\ conv.back[2]["password"] # EmptyString

\* C17: the struct-to-schema converters of CORS, landing page design, footer
\* links, SAAS app and SCIM config return an empty list when the
\* configuration has no block of theirs, whatever the service returned.
C17_AbsentBlockGivesEmpty ==
    /\ conv.fam = "cors" /\ conv.step = "convertCORSStructToSchema"
          /\ conv.in.d.cors_headers = <<>> => conv.out = <<>>
    /\ conv.fam = "landing" /\ conv.step = "convertLandingPageDesignStructToSchema"
          /\ conv.in.d.landing_page_design = <<>> => conv.out = <<>>
    /\ conv.fam = "footer" /\ conv.step = "convertFooterLinksStructToSchema"
          /\ conv.in.d.footer_links = {} => conv.out = <<>>
    /\ conv.fam = "saas" /\ conv.step = "convertSaasStructToSchema"
          /\ conv.in.d.saas_app = <<>> => conv.out = <<>>
    /\ conv.fam = "scim_read" /\ conv.step = "convertScimConfigStructToSchema"
          /\ conv.in.d.scim_config = <<>> => conv.out = <<>>

\* the secrets of the authentication entries in auth
SecretsIn(auth) ==
    {auth[i][k] : i \in 1..Len(auth), k \in SecretKeys} \ {EmptyString}

\* C18: the state holds the fixed placeholder for every password, token and
\* client secret that is set, when the framework derives it from the
\* configuration and when convertScimConfigAuthenticationStructToSchema
\* writes it from the struct the service returned.
C18_StateHoldsPlaceholder ==
    /\ conv.fam = "scim" /\ conv.step = "StateFunc" =>
          SecretsIn([i \in 1..Len(conv.out) |->
                        [k \in SecretKeys |-> conv.out[i][k]]]) \subseteq {CONCEALED_STRING}
    /\ conv.fam = "scim_read" /\ conv.step = "convertScimConfigStructToSchema"
          /\ conv.out # <<>> =>
          LET auth == conv.out[1].authentication
          IN SecretsIn([i \in 1..Len(auth) |->
                           [k \in SecretKeys |-> AttrOr(auth[i], k, EmptyString)]])
                 \subseteq {CONCEALED_STRING}

(***************************************************************************)
(* Claims about the payload of Update and about the stored identifier.     *)
(***************************************************************************)
\* the location Create sends for the ResourceData d; Nil when Create stops
\* before the call
CreatePayload(d) ==
    LET lg == resourceCloudflareTeamsLocationCreate(d, Failure(<<>>), Failure(<<>>)).log
    IN IF Len(lg) = 0 THEN Nil ELSE lg[1].payload

\* C19: the location Update sends holds the stored identifier and, for name,
\* networks, client_default, ecs_support, endpoints, dns_destination_ips_id
\* and dns_destination_ipv6_block_id, what Create sends for the same
\* ResourceData.
C19_UpdateSendsWhatCreateSends ==
    [][op' = "Update" /\ Len(log') > 0 /\ CreatePayload(D) # Nil =>
          LET sent == log'[1].payload
              created == CreatePayload(D)
          IN /\ sent.ID = id
             /\ sent.Name = created.Name
             /\ sent.Networks = created.Networks
             /\ sent.ClientDefault = created.ClientDefault
             /\ sent.ECSSupport = created.ECSSupport
             /\ sent.Endpoints = created.Endpoints
             /\ sent.DNSDestinationIPsID = created.DNSDestinationIPsID
             /\ sent.DNSDestinationIPv6BlockID = created.DNSDestinationIPv6BlockID]_vars

\* the create call of the log lg succeeded and the service assigned ident
Created(lg, ident) ==
    \E i \in 1..Len(lg) : CallOk(lg[i], "CreateTeamsLocation") /\ lg[i].resp.val.ID = ident

\* C20: a handler makes the stored identifier non-empty only by a create
\* call that succeeded, with the identifier the service assigned, or by the
\* Import of an identifier with a "/"; Read, Update and Delete never replace
\* a non-empty identifier by another non-empty one; a handler makes the
\* identifier empty only when a Read got the invalid-identifier error.
C20_IdentifierLifecycle ==
    [][op' \in Handlers =>
          /\ id = EmptyString /\ id' # EmptyString =>
                \/ op' = "Create" /\ Created(log', id')
                \/ op' = "Import" /\ HasSlash(id)
          /\ op' \in {"Read", "Update", "Delete"} /\ id # EmptyString /\ id' # EmptyString =>
                id' = id
          /\ id # EmptyString /\ id' = EmptyString => GetFailedInvalid(log')]_vars

(***************************************************************************)
(* Claims about the conversion of networks and endpoints in Create and     *)
(* Update.                                                                 *)
(***************************************************************************)
\* the handler stopped where it was: no call, no SetId, nothing written
StoppedAtOnce ==
    /\ log' = <<>>
    /\ id' = id /\ account' = account /\ attrs' = attrs

EndpointKinds == {"ipv4", "ipv6", "dot", "doh"}

\* x is a list whose first element is a map with the boolean fields of kind
KindWellFormed(kind, x) ==
    /\ x.t = "list"
    /\ Len(x.v) > 0
    /\ x.v[1].t = "map"
    /\ MapGet(x.v[1], "enabled").t = "bool"
    /\ kind \in {"dot", "doh"} => MapGet(x.v[1], "require_token").t = "bool"

\* inflateTeamsLocationEndpoint has returned for a list whose first entry is
\* a map
EntryInflated ==
    /\ conv.fam = "inflate"
    /\ conv.step = "inflateTeamsLocationEndpoint"
    /\ conv.in.t = "list"
    /\ Len(conv.in.v) > 0
    /\ conv.in.v[1].t = "map"

\* C22 as stated: for an endpoints entry with a kind value that is not a
\* list whose first element is a map with the boolean fields,
\* inflateTeamsLocationEndpoint returns an error; for an entry whose four
\* kind values have that shape it returns the flags of their first elements.
C22_MalformedKindGivesError ==
    EntryInflated =>
        LET entry == conv.in.v[1] IN
        IF \E k \in EndpointKinds : ~KindWellFormed(k, MapGet(entry, k))
        THEN conv.out.status = "error"
        ELSE /\ conv.out.status = "ok"
             /\ conv.out.v.v.IPv4Endpoint.Enabled = EndpointField(conv.in, "ipv4", "enabled")
             /\ conv.out.v.v.IPv6Endpoint.Enabled = EndpointField(conv.in, "ipv6", "enabled")
             /\ conv.out.v.v.DotEndpoint.Enabled = EndpointField(conv.in, "dot", "enabled")
             /\ conv.out.v.v.DohEndpoint.Enabled = EndpointField(conv.in, "doh", "enabled")
             /\ conv.out.v.v.DotEndpoint.RequireToken =
                    EndpointField(conv.in, "dot", "require_token")
             /\ conv.out.v.v.DohEndpoint.RequireToken =
                    EndpointField(conv.in, "doh", "require_token")

\* C23 as stated: flattenTeamsEndpoints returns, for every record of the
\* service, the one without endpoints object included, a list of one map
\* with the keys ipv4, ipv6, dot and doh, each a list of one element that
\* holds the authentication_enabled of the record.
C23_FlattenAlwaysEmitsFourKinds ==
    conv.fam = "endpoints" /\ conv.step = "flattenTeamsEndpoints" =>
        /\ conv.out.status = "ok"
        /\ Len(conv.out.v.v) = 1
        /\ DOMAIN conv.out.v.v[1].v = EndpointKinds
        /\ \A k \in EndpointKinds : Len(conv.out.v.v[1].v[k].v) = 1
        /\ EndpointField(conv.out.v, "ipv4", "authentication_enabled") =
               conv.in.v.IPv4Endpoint.AuthenticationEnabled
        /\ EndpointField(conv.out.v, "ipv6", "authentication_enabled") =
               conv.in.v.IPv6Endpoint.AuthenticationEnabledUIHelper
        /\ EndpointField(conv.out.v, "dot", "authentication_enabled") =
               conv.in.v.DotEndpoint.AuthenticationEnabledUIHelper
        /\ EndpointField(conv.out.v, "doh", "authentication_enabled") =
               conv.in.v.DohEndpoint.AuthenticationEnabledUIHelper

\* the struct that holds the flags and networks of the first entry of tree
FirstEntryStruct(tree) ==
    [IPv4Endpoint |-> [Enabled |-> EndpointField(tree, "ipv4", "enabled"),
                       AuthenticationEnabled |-> FALSE],
     IPv6Endpoint |-> [Enabled |-> EndpointField(tree, "ipv6", "enabled"),
                       AuthenticationEnabledUIHelper |-> FALSE,
                       Networks |-> [i \in 1..Len(EndpointNetworks(tree, "ipv6")) |->
                                        [Network |-> EndpointNetworks(tree, "ipv6")[i]]]],
     DotEndpoint |-> [RequireToken |-> EndpointField(tree, "dot", "require_token"),
                      Enabled |-> EndpointField(tree, "dot", "enabled"),
                      AuthenticationEnabledUIHelper |-> FALSE,
                      Networks |-> [i \in 1..Len(EndpointNetworks(tree, "dot")) |->
                                       [Network |-> EndpointNetworks(tree, "dot")[i]]]],
     DohEndpoint |-> [RequireToken |-> EndpointField(tree, "doh", "require_token"),
                      Enabled |-> EndpointField(tree, "doh", "enabled"),
                      AuthenticationEnabledUIHelper |-> FALSE,
                      Networks |-> [i \in 1..Len(EndpointNetworks(tree, "doh")) |->
                                       [Network |-> EndpointNetworks(tree, "doh")[i]]]]]

\* the first entry of the endpoints list is a map whose four kinds are well
\* formed
FirstEntryWellFormed(tree) ==
    /\ tree.t = "list" /\ Len(tree.v) > 0 /\ tree.v[1].t = "map"
    /\ \A k \in EndpointKinds : KindWellFormed(k, MapGet(tree.v[1], k))

\* the first event of the log is the create call
CreateCalled(lg) == Len(lg) > 0 /\ IsCall(lg[1], "CreateTeamsLocation")

\* C24: in a Create whose networks inflate, a nil endpoints value inflates
\* to no endpoints and no error and the location is sent without endpoints;
\* an empty list inflates to the error "empty endpoint" and Create returns
\* an error without a call; of a list with several entries, the first one
\* well formed, the location sent holds the first entry and nothing of the
\* others.
C24_CreateWithEndpoints ==
    [][op' = "Create" /\ inflateTeamsLocationNetworks(attrs.networks).status = "ok" =>
          /\ attrs.endpoints = Nil =>
                /\ inflateTeamsLocationEndpoint(attrs.endpoints) = Ok(NilPtr)
                /\ CreateCalled(log')
                /\ log'[1].payload.Endpoints = NilPtr
          /\ attrs.endpoints = L(<<>>) =>
                /\ inflateTeamsLocationEndpoint(attrs.endpoints) = Errorf("empty endpoint")
                /\ result'.status = "error"
                /\ log' = <<>>
          /\ FirstEntryWellFormed(attrs.endpoints) /\ Len(attrs.endpoints.v) > 1 =>
                /\ CreateCalled(log')
                /\ log'[1].payload.Endpoints = Ptr(FirstEntryStruct(attrs.endpoints))]_vars

\* Create has sent the first entry of a list of two whose second entry has
\* an ipv4 list without element
C24_Witness ==
    /\ op = "Create"
    /\ CreateCalled(log)
    /\ ~log[1].resp.ok
    /\ attrs.endpoints.t = "list"
    /\ Len(attrs.endpoints.v) = 2
    /\ attrs.endpoints.v[2].v["ipv4"] = L(<<>>)
    /\ log[1].payload.Endpoints = Ptr(FirstEntryStruct(attrs.endpoints))

(***************************************************************************)
(* Claims about the tagged unions: SCIM authentication and SAAS app.       *)
(***************************************************************************)
\* the variant type of each of the four schemes
VariantOfScheme(scheme) ==
    CASE scheme = "httpbasic" -> "HttpBasic"
      [] scheme = "oauthbearertoken" -> "OauthBearerToken"
      [] scheme = "oauth2" -> "Oauth2"
      [] scheme = "access_service_token" -> "ServiceToken"
      [] OTHER -> "none"

\* the positions of auth whose scheme is one of the four
KnownPositions(auth) == {i \in 1..Len(auth) : VariantOfScheme(auth[i].scheme) # "none"}

\* the variant v was made of the configuration element e
MadeOf(v, e) ==
    /\ v.t = VariantOfScheme(e.scheme)
    /\ v.Scheme = e.scheme
    /\ v.t = "HttpBasic" => v.User = e.user /\ v.Password = e.password
    /\ v.t = "OauthBearerToken" => v.Token = e.token
    /\ v.t \in {"Oauth2", "ServiceToken"} =>
           v.ClientID = e.client_id /\ v.ClientSecret = e.client_secret

\* C25: convertScimConfigAuthenticationSchemaToStruct returns, without an
\* error, one element for each authentication entry whose scheme is one of
\* the four, in the order of the configuration and of the variant of its
\* scheme; an entry of another scheme gives no element and does not keep the
\* entries after it from being converted.
C25_UnknownSchemeIsSkipped ==
    conv.fam = "scim" /\ conv.step = "convertScimConfigAuthenticationSchemaToStruct" =>
        LET auth == ScimAuthentication(conv.in)
            known == KnownPositions(auth)
            multi == conv.out.v.Value.v
        IN /\ conv.out.t = "ptr"
           /\ Len(multi) = Cardinality(known)
           /\ \A i \in known :
                  MadeOf(multi[Cardinality({j \in known : j <= i})].Value, auth[i])

\* an entry of an unknown scheme, then one with user and password
C25_Witness ==
    /\ conv.fam = "scim" /\ conv.step = "convertScimConfigAuthenticationSchemaToStruct"
    /\ Len(ScimAuthentication(conv.in)) = 2
    /\ ScimAuthentication(conv.in)[1].scheme = "digest"
    /\ ScimAuthentication(conv.in)[2].scheme = "httpbasic"
    /\ Len(conv.out.v.Value.v) = 1
    /\ conv.out.v.Value.v[1].Value.t = "HttpBasic"
    /\ conv.out.v.Value.v[1].Value.User = ScimAuthentication(conv.in)[2].user

\* no field of the SAML variant is set in the struct a
NoSamlField(a) ==
    /\ a.SPEntityID = EmptyString /\ a.ConsumerServiceUrl = EmptyString
    /\ a.NameIDFormat = EmptyString /\ a.IDPEntityID = EmptyString
    /\ a.SSOEndpoint = EmptyString /\ a.DefaultRelayState = EmptyString
    /\ a.NameIDTransformJsonata = EmptyString
    /\ a.SamlAttributeTransformJsonata = EmptyString
    /\ a.CustomAttributes = NilPtr

\* no field of the OIDC variant is set in the struct a
NoOidcField(a) ==
    /\ a.ClientID = EmptyString /\ a.ClientSecret = EmptyString
    /\ a.RedirectURIs = <<>> /\ a.GrantTypes = <<>> /\ a.Scopes = <<>>
    /\ a.GroupFilterRegex = EmptyString /\ a.AccessTokenLifetime = EmptyString
    /\ a.AppLauncherURL = EmptyString
    /\ a.AllowPKCEWithoutClientSecret = NilPtr /\ a.RefreshTokenOptions = NilPtr
    /\ a.CustomClaims = NilPtr /\ a.HybridAndImplicitOptions = NilPtr

\* the auth_type of the configuration, "" when there is no saas_app block
ConfiguredAuthType(d) == IF Len(d.saas_app) > 0 THEN d.saas_app[1].auth_type ELSE ""

\* C26: for a configuration whose auth_type is "oidc",
\* convertSaasSchemaToStruct returns a struct of AuthType "oidc" without any
\* SAML field set; for every other auth_type, an unset one included, it
\* returns a struct of AuthType "saml" without any OIDC field set.
C26_OneVariantIsPopulated ==
    conv.fam = "saas_config" /\ conv.step = "convertSaasSchemaToStruct" =>
        /\ conv.out.t = "ptr"
        /\ conv.out.v.AuthType \in {"oidc", "saml"}
        /\ IF ConfiguredAuthType(conv.in) = "oidc"
           THEN conv.out.v.AuthType = "oidc" /\ NoSamlField(conv.out.v)
           ELSE conv.out.v.AuthType = "saml" /\ NoOidcField(conv.out.v)

\* a block with the keys of both variants set and an auth_type the schema
\* does not know has been converted to the SAML variant
C26_Witness ==
    /\ conv.fam = "saas_config" /\ conv.step = "convertSaasSchemaToStruct"
    /\ ConfiguredAuthType(conv.in) = "ldap"
    /\ conv.in.saas_app[1].client_id # EmptyString
    /\ conv.out.v.AuthType = "saml"
    /\ conv.out.v.SPEntityID = conv.in.saas_app[1].sp_entity_id
    /\ conv.out.v.SPEntityID # EmptyString
    /\ conv.out.v.ClientID = EmptyString

\* the keys convertSaasStructToSchema may write for each variant
OidcKeys ==
    {"auth_type", "client_id", "client_secret", "redirect_uris", "grant_types",
     "scopes", "public_key", "group_filter_regex", "access_token_lifetime",
     "app_launcher_url", "allow_pkce_without_client_secret",
     "refresh_token_options", "custom_claim", "hybrid_and_implicit_options"}
SamlKeys ==
    {"auth_type", "sp_entity_id", "consumer_service_url", "name_id_format",
     "idp_entity_id", "public_key", "sso_endpoint", "default_relay_state",
     "name_id_transform_jsonata", "saml_attribute_transform_jsonata",
     "custom_attribute"}

\* C27 as stated: the tree convertSaasStructToSchema returns for a struct
\* that is not nil holds auth_type equal to the AuthType of the struct and
\* no key of the other variant, and convertSaasSchemaToStruct applied to the
\* tree returns a struct of the same AuthType.
C27_DiscriminatorIsKept ==
    /\ conv.fam = "saas" /\ conv.in.app # NilPtr
         /\ conv.step \in {"convertSaasStructToSchema", "convertSaasSchemaToStruct"} =>
          /\ Len(conv.out) = 1
          /\ "auth_type" \in DOMAIN conv.out[1]
          /\ conv.out[1]["auth_type"] = conv.in.app.v.AuthType
          /\ DOMAIN conv.out[1] \subseteq
                 (IF conv.in.app.v.AuthType = "oidc" THEN OidcKeys ELSE SamlKeys)
    /\ conv.fam = "saas" /\ conv.in.app # NilPtr
         /\ conv.step = "convertSaasSchemaToStruct" =>
          conv.back.v.AuthType = conv.in.app.v.AuthType

(***************************************************************************)
(* Claims about target contexts, destinations and diff suppression.        *)
(***************************************************************************)
\* the names of the items of a target_attributes list
ItemNames(items) == {items[j].name : j \in 1..Len(items)}

\* C28 as stated: the context convertTargetContextsToStruct makes of each
\* target_criteria entry holds the port and the protocol of the entry and a
\* TargetAttributes map whose keys are the names of the target_attributes
\* items of that entry, each with the values of its item in order; and
\* convertTargetContextsToSchema gives back the names and values of the
\* configuration.
C28_ContextHoldsEveryAttribute ==
    /\ conv.fam = "targets" /\ conv.out # Nil /\ conv.out.status = "ok"
         /\ conv.step \in {"convertTargetContextsToStruct", "convertTargetContextsToSchema"} =>
          LET criteria == conv.in.target_criteria
              contexts == conv.out.v.v
          IN /\ Len(contexts) = Len(criteria)
             /\ \A i \in 1..Len(criteria) :
                    /\ contexts[i].Port = criteria[i].port
                    /\ contexts[i].Protocol = criteria[i].protocol
                    /\ DOMAIN contexts[i].TargetAttributes =
                           ItemNames(criteria[i].target_attributes)
                    /\ \A j \in 1..Len(criteria[i].target_attributes) :
                           contexts[i].TargetAttributes[criteria[i].target_attributes[j].name]
                               = criteria[i].target_attributes[j].values
    /\ conv.fam = "targets" /\ conv.step = "convertTargetContextsToSchema" =>
          LET criteria == conv.in.target_criteria
          IN /\ Len(conv.back) = Len(criteria)
             /\ \A i \in 1..Len(criteria) :
                    Range(conv.back[i].target_attributes) =
                        Range(criteria[i].target_attributes)

\* C29: convertTargetContextsToStruct returns an error and an empty list of
\* contexts when the protocol of some entry is neither "SSH" nor "RDP",
\* whatever the entries before it, and contexts without error otherwise;
\* convertDestinationsToStruct returns an error and no destinations when the
\* type of some entry is neither "public" nor "private", and destinations
\* without error otherwise.
C29_MalformedEnumAborts ==
    /\ conv.fam = "targets" /\ conv.step = "convertTargetContextsToStruct" =>
          IF \E i \in 1..Len(conv.in.target_criteria) :
                 conv.in.target_criteria[i].protocol \notin {"SSH", "RDP"}
          THEN conv.out.status = "error" /\ conv.out.v = Ptr(<<>>)
          ELSE conv.out.status = "ok"
               /\ Len(conv.out.v.v) = Len(conv.in.target_criteria)
    /\ conv.fam = "destinations" /\ conv.step = "convertDestinationsToStruct" =>
          IF \E i \in 1..Len(conv.in) : conv.in[i].type \notin {"public", "private"}
          THEN conv.out.status = "error" /\ conv.out.v = NilPtr
          ELSE conv.out.status = "ok" /\ Len(conv.out.v.v) = Len(conv.in)

\* a destination of type "public" followed by one of another type has been
\* rejected
C29_Witness ==
    /\ conv.fam = "destinations" /\ conv.step = "convertDestinationsToStruct"
    /\ Len(conv.in) = 2
    /\ conv.in[1].type = "public"
    /\ conv.in[2].type = "internal"
    /\ conv.out.status = "error"
    /\ conv.out.v = NilPtr

\* C30: for an application of type "infrastructure" the four functions
\* return true for every old and new value, the function of
\* session_duration also for type "bookmark"; for every other type they
\* return true exactly when the old and the new value are equal.
C30_DiffSuppression ==
    conv.fam = "suppress" /\ conv.step # "input" =>
        IF conv.in.d.type = "infrastructure"
              \/ (conv.step = "session_duration" /\ conv.in.d.type = "bookmark")
        THEN conv.out = TRUE
        ELSE conv.out = (conv.in.oldValue = conv.in.newValue)

\* the change of session_duration of a bookmark has been suppressed
C30_Witness ==
    /\ conv.fam = "suppress" /\ conv.step = "session_duration"
    /\ conv.in.d.type = "bookmark"
    /\ conv.in.oldValue # conv.in.newValue
    /\ conv.out = TRUE

====
